---- MODULE Spec2Model ----
(***************************************************************************)
(* State-machine model of the content-automation prototypes:               *)
(*   "app"   src/app.py                     (single-file Flask server)     *)
(*   "impl"  src/python_implementation/src  (FastAPI server + scheduler)   *)
(*   "dalla" src/python_dalla               (templated multi-page server)  *)
(* The prototypes are separate programs.  The variable deployment says     *)
(* which one a behaviour is a run of; it never changes.                    *)
(***************************************************************************)
EXTENDS Integers, Sequences, FiniteSets, TLC

VARIABLES
    deployment,  \* which prototype is running
    schedule,    \* the task file (schedule.json / scheduler.json): a sequence of task records
    characters,  \* characters.json: a sequence of character records
    jobs,        \* ids of the jobs the cron scheduler holds
    nextId,      \* number of ids (uuid4) handed out so far
    run,         \* the scheduler thread's current job run (program counter and locals)
    calls,       \* the outgoing calls the current run has made, in order
    response,    \* the status code the last HTTP request handler answered with
    remote,      \* the state of the remote service a polling loop talks to
    web,         \* the web server's request handlers and threads that are under way
    clock,       \* the wall clock (datetime.now)
    generation_tasks  \* src/app.py's in-memory store of image generations

vars == <<deployment, schedule, characters, jobs, nextId, run, calls, response, remote,
          web, clock, generation_tasks>>

\* ---------------------------------------------------------------- bounds

\* ids handed out over a run of the server (tasks and characters together)
MaxIds == 2

\* polls of the remote history that one image generation may make
MaxPolls == 3
\* output nodes in the history entry of a prompt
MaxNodes == 2

\* segments (a placeholder, a word, a space, a brace) a template is made of
MaxSegments == 3

\* records a JSON file holds when the server starts
MaxFile == 3

\* passes of the python_dalla scheduler worker over scheduler.json
MaxPasses == 2
\* the latest reading of the wall clock
MaxClock == 1

\* messages other than the completion event that ComfyUI pushes to a socket
MaxMessages == 2

\* ---------------------------------------------------------------- data

TaskTypes == {"generate_and_post", "generate_only"}
CronStrings == {"0 9 * * *", "not a cron"}
Names == {"Ava", "Bo"}
ImageUrls == {"view?filename=a.png", "view?filename=b.png"}
Captions == {"a caption"}
DefaultCaption == "Default caption."
Ids == 1..MaxIds

NoTask == [id |-> 0, characterId |-> 0, type |-> "", schedule |-> "", active |-> FALSE]
NoCharacter == [id |-> 0, name |-> ""]
NoResponse == 0
Idle == [pc |-> "idle", task_id |-> 0, task |-> NoTask, character |-> NoCharacter,
         image_url |-> "", caption |-> "", result |-> ""]

\* ---------------------------------------------------------------- helpers

\* the last record dropped when the id is there, whichever record has it
WithoutId_pop(seq, id) ==
    IF \E i \in 1..Len(seq) : seq[i].id = id THEN SubSeq(seq, 1, Len(seq) - 1) ELSE seq

\* [x for x in seq if x['id'] != id]
WithoutId(seq, id) == SelectSeq(seq, LAMBDA x : x.id # id)

\* next((x for x in seq if x['id'] == id), None)
FindById(seq, id, none) ==
    IF \E i \in 1..Len(seq) : seq[i].id = id
    THEN seq[CHOOSE i \in 1..Len(seq) :
                 /\ seq[i].id = id
                 /\ \A j \in 1..(i - 1) : seq[j].id # id]
    ELSE none

IdsOf(seq) == {seq[i].id : i \in 1..Len(seq)}

\* CronTrigger.from_crontab accepts the string
CronParses(s) == s = "0 9 * * *"

\* ------------------------------------------------- src/app.py: scheduler job

\* the record of one outgoing call of a run
Call(op, character, image_url, caption, outcome) ==
    [op |-> op, characterId |-> character.id, prompt |-> character.name,
     imageUrl |-> image_url, caption |-> caption, outcome |-> outcome]

\* APScheduler submits job t to its executor: execute_scheduled_task(t) will run
Fire(t) ==
    /\ deployment = "app"
    /\ run.pc = "idle"
    /\ t \in jobs
    /\ run' = [Idle EXCEPT !.pc = "load_schedule", !.task_id = t]
    /\ calls' = <<>>
    /\ UNCHANGED <<web, clock, generation_tasks, deployment, schedule, characters, jobs, nextId, response, remote>>

\* LoadTask without the return for a task that is not found
LoadTask_no_return ==
    /\ deployment = "app"
    /\ run.pc = "load_schedule"
    /\ LET task == FindById(schedule, run.task_id, NoTask)
       IN  run' = [run EXCEPT !.pc = "load_characters", !.task = task]
    /\ UNCHANGED <<web, clock, generation_tasks, deployment, schedule, characters, jobs, nextId, calls, response, remote>>

\* tasks = load_schedule(); task = next(...); if not task: return
LoadTask ==
    /\ deployment = "app"
    /\ run.pc = "load_schedule"
    /\ LET task == FindById(schedule, run.task_id, NoTask)
       IN  run' = IF task = NoTask
                  THEN [run EXCEPT !.pc = "done", !.result = "task not found"]
                  ELSE [run EXCEPT !.pc = "load_characters", !.task = task]
    /\ UNCHANGED <<web, clock, generation_tasks, deployment, schedule, characters, jobs, nextId, calls, response, remote>>

\* LoadCharacter taking the first stored character, whatever its id
LoadCharacter_first ==
    /\ deployment = "app"
    /\ run.pc = "load_characters"
    /\ LET character == IF characters = <<>> THEN NoCharacter ELSE Head(characters)
       IN  run' = IF character = NoCharacter
                  THEN [run EXCEPT !.pc = "done", !.result = "character not found"]
                  ELSE [run EXCEPT !.pc = "generate_image", !.character = character]
    /\ UNCHANGED <<web, clock, generation_tasks, deployment, schedule, characters, jobs, nextId, calls, response, remote>>

\* characters = load_characters(); character = next(...); if not character: return
LoadCharacter ==
    /\ deployment = "app"
    /\ run.pc = "load_characters"
    /\ LET character == FindById(characters, run.task.characterId, NoCharacter)
       IN  run' = IF character = NoCharacter
                  THEN [run EXCEPT !.pc = "done", !.result = "character not found"]
                  ELSE [run EXCEPT !.pc = "generate_image", !.character = character]
    /\ UNCHANGED <<web, clock, generation_tasks, deployment, schedule, characters, jobs, nextId, calls, response, remote>>

\* the image call wrapped in a try of its own, like the caption call: the run goes on
ImageRaised_inner_try(r) == [r EXCEPT !.pc = "generate_caption"]

\* an exception raised by _run_image_generation_sync: the outer except clause of
\* execute_scheduled_task logs it and the job returns
ImageRaised(r) == [r EXCEPT !.pc = "done", !.result = "error logged"]

\* GenerateImage with the caption step left out: posting follows the image directly
GenerateImage_no_caption ==
    /\ deployment = "app"
    /\ run.pc = "generate_image"
    /\ \/ \E url \in ImageUrls :
            /\ calls' = Append(calls, Call("image", run.character, "", "", "returned"))
            /\ run' = [run EXCEPT !.pc = "post_instagram", !.image_url = url, !.caption = DefaultCaption]
       \/ /\ calls' = Append(calls, Call("image", run.character, "", "", "raised"))
          /\ run' = [run EXCEPT !.pc = "done", !.result = "error logged"]
    /\ UNCHANGED <<web, clock, generation_tasks, deployment, schedule, characters, jobs, nextId, response, remote>>

\* image_url = _run_image_generation_sync(image_payload): returns a URL or raises
GenerateImage ==
    /\ deployment = "app"
    /\ run.pc = "generate_image"
    /\ \/ \E url \in ImageUrls :
            /\ calls' = Append(calls, Call("image", run.character, "", "", "returned"))
            /\ run' = [run EXCEPT !.pc = "generate_caption", !.image_url = url]
       \/ /\ calls' = Append(calls, Call("image", run.character, "", "", "raised"))
          /\ run' = ImageRaised(run)
    /\ UNCHANGED <<web, clock, generation_tasks, deployment, schedule, characters, jobs, nextId, response, remote>>

\* the step after the caption: posting only for a generate_and_post task
AfterCaption(task) ==
    IF task.type = "generate_and_post" THEN "post_instagram" ELSE "finished"

\* caption = "Default caption."; try: caption = _generate_caption_logic(...)
\* except Exception: print: the caption variable after the try block
CaptionAfter(generated) ==
    IF generated = "raised" THEN DefaultCaption ELSE generated

\* step 3 of execute_scheduled_task: the caption call, which may raise
GenerateCaption ==
    /\ deployment = "app"
    /\ run.pc = "generate_caption"
    /\ \E generated \in Captions \cup {"raised"} :
          LET caption == CaptionAfter(generated)
              pc == AfterCaption(run.task)
          IN  /\ calls' = Append(calls, Call("caption", run.character, "", "",
                                  IF generated = "raised" THEN "raised" ELSE "returned"))
              /\ run' = IF pc = "finished"
                        THEN [run EXCEPT !.pc = "done", !.caption = caption, !.result = "finished"]
                        ELSE [run EXCEPT !.pc = pc, !.caption = caption]
    /\ UNCHANGED <<web, clock, generation_tasks, deployment, schedule, characters, jobs, nextId, response, remote>>

\* both posts in one try block: a failed Instagram post skips the Twitter post
AfterInstagram_one_try(posted) == IF posted THEN "post_twitter" ELSE "finished"

\* the step after the Instagram post, whether it succeeded or raised
AfterInstagram(posted) == "post_twitter"

\* try: _post_to_instagram_logic(post_payload) except Exception: print
PostToInstagram ==
    /\ deployment = "app"
    /\ run.pc = "post_instagram"
    /\ \E posted \in BOOLEAN :
          \* the post raises when the character is gone from characters.json
          /\ posted => run.character.id \in IdsOf(characters)
          /\ calls' = Append(calls, Call("instagram", run.character, run.image_url, run.caption,
                                  IF posted THEN "returned" ELSE "raised"))
          /\ LET pc == AfterInstagram(posted)
             IN  run' = IF pc = "finished"
                        THEN [run EXCEPT !.pc = "done", !.result = "finished"]
                        ELSE [run EXCEPT !.pc = pc]
    /\ UNCHANGED <<web, clock, generation_tasks, deployment, schedule, characters, jobs, nextId, response, remote>>

\* try: _post_to_twitter_logic(post_payload) except Exception: print
PostToTwitter ==
    /\ deployment = "app"
    /\ run.pc = "post_twitter"
    /\ \E posted \in BOOLEAN :
          /\ posted => run.character.id \in IdsOf(characters)
          /\ calls' = Append(calls, Call("twitter", run.character, run.image_url, run.caption,
                                  IF posted THEN "returned" ELSE "raised"))
    /\ run' = [run EXCEPT !.pc = "done", !.result = "finished"]
    /\ UNCHANGED <<web, clock, generation_tasks, deployment, schedule, characters, jobs, nextId, response, remote>>

\* execute_scheduled_task has returned: the executor thread is free again
Return ==
    /\ deployment = "app"
    /\ run.pc = "done"
    /\ run' = Idle
    /\ calls' = <<>>
    /\ UNCHANGED <<web, clock, generation_tasks, deployment, schedule, characters, jobs, nextId, response, remote>>

\* ------------------------------------------------- src/app.py: HTTP handlers

\* POST /api/scheduler.  characterId 0 and schedule "" stand for a missing field
add_task(characterId, type, cron) ==
    /\ deployment = "app"
    /\ IF characterId = 0 \/ cron = ""
       THEN /\ response' = 400
            /\ UNCHANGED <<schedule, jobs, nextId>>
       ELSE /\ nextId < MaxIds
            /\ LET new_task == [id |-> nextId + 1, characterId |-> characterId, type |-> type,
                                schedule |-> cron, active |-> TRUE]
               IN  /\ nextId' = nextId + 1
                   /\ schedule' = Append(schedule, new_task)
                   \* CronTrigger.from_crontab raises after the file was saved
                   /\ IF CronParses(cron)
                      THEN /\ jobs' = jobs \cup {new_task.id}
                           /\ response' = 201
                      ELSE /\ jobs' = jobs
                           /\ response' = 500
    /\ UNCHANGED <<web, clock, generation_tasks, deployment, characters, run, calls, remote>>

\* DELETE /api/scheduler/<task_id>
delete_task(task_id) ==
    /\ deployment = "app"
    /\ LET tasks == WithoutId(schedule, task_id)
       IN  IF Len(tasks) = Len(schedule)
           THEN /\ response' = 404
                /\ UNCHANGED <<schedule, jobs>>
           ELSE /\ schedule' = tasks
                /\ jobs' = jobs \ {task_id}
                /\ response' = 200
    /\ UNCHANGED <<web, clock, generation_tasks, deployment, characters, nextId, run, calls, remote>>

\* the bodies of a PUT /api/scheduler/<task_id>: one field with its new value;
\* field "" stands for an empty body
UpdateData ==
    {[field |-> "", value |-> ""],
     [field |-> "active", value |-> FALSE], [field |-> "active", value |-> TRUE],
     [field |-> "schedule", value |-> "not a cron"]}

\* task.update(data)
Update(task, data) ==
    IF data.field = "active" THEN [task EXCEPT !.active = data.value]
    ELSE IF data.field = "schedule" THEN [task EXCEPT !.schedule = data.value]
    ELSE task

\* the position of the first record with that id
IndexOfId(seq, id) ==
    CHOOSE i \in 1..Len(seq) : seq[i].id = id /\ \A j \in 1..(i - 1) : seq[j].id # id

\* PUT /api/scheduler/<task_id>
update_task(task_id, data) ==
    /\ deployment = "app"
    /\ IF data.field = ""
       THEN /\ response' = 400
            /\ UNCHANGED schedule
       ELSE IF task_id \notin IdsOf(schedule)
       THEN /\ response' = 404
            /\ UNCHANGED schedule
       ELSE LET i == IndexOfId(schedule, task_id)
                task == Update(schedule[i], data)
            IN  \* a job of that id is rescheduled: from_crontab raises before the save
                IF task_id \in jobs /\ ~CronParses(task.schedule)
                THEN /\ response' = 500
                     /\ UNCHANGED schedule
                ELSE /\ schedule' = [schedule EXCEPT ![i] = task]
                     /\ response' = 200
    /\ UNCHANGED <<web, clock, generation_tasks, deployment, characters, jobs, nextId, run, calls, remote>>

\* POST /api/characters.  name "" stands for a body without name or personality
create_character(name) ==
    /\ deployment = "app"
    /\ IF name = ""
       THEN /\ response' = 400
            /\ UNCHANGED <<characters, nextId>>
       ELSE /\ nextId < MaxIds
            /\ nextId' = nextId + 1
            /\ characters' = Append(characters, [id |-> nextId + 1, name |-> name])
            /\ response' = 201
    /\ UNCHANGED <<web, clock, generation_tasks, deployment, schedule, jobs, run, calls, remote>>

\* DELETE /api/characters/<char_id>
delete_character(char_id) ==
    /\ deployment = "app"
    /\ LET kept == WithoutId(characters, char_id)
       IN  IF Len(kept) = Len(characters)
           THEN /\ response' = 404
                /\ UNCHANGED characters
           ELSE /\ characters' = kept
                /\ response' = 200
    /\ UNCHANGED <<web, clock, generation_tasks, deployment, schedule, jobs, nextId, run, calls, remote>>

\* the server after initialize_scheduler() on an empty data directory
InitApp ==
    /\ deployment = "app"
    /\ schedule = <<>>
    /\ characters = <<>>
    /\ jobs = {}
    /\ nextId = 0
    /\ run = Idle
    /\ calls = <<>>
    /\ response = NoResponse
    /\ remote = "none"
    /\ web = <<>>
    /\ clock = 0
    /\ generation_tasks = <<>>

NextApp ==
    \/ \E t \in Ids : Fire(t)
    \/ LoadTask
    \/ LoadCharacter
    \/ GenerateImage
    \/ GenerateCaption
    \/ PostToInstagram
    \/ PostToTwitter
    \/ Return
    \/ \E c \in {0} \cup Ids, ty \in TaskTypes, cron \in CronStrings \cup {""} : add_task(c, ty, cron)
    \/ \E t \in Ids : delete_task(t)
    \/ \E t \in Ids, data \in UpdateData : update_task(t, data)
    \/ \E n \in Names \cup {""} : create_character(n)
    \/ \E c \in Ids : delete_character(c)

SpecApp == InitApp /\ [][NextApp]_vars

\* ------------------------------------------------- claims about src/app.py

CallsOf(op) == {i \in 1..Len(calls) : calls[i].op = op}
PostCalls == CallsOf("instagram") \cup CallsOf("twitter")

\* C1: in a run of execute_scheduled_task no post to Instagram or Twitter is
\* attempted before image generation has returned an image URL and the caption
\* step has finished, in that order; the post carries that URL and that caption.
C1_GenerateCaptionPost ==
    deployment = "app" =>
        \A p \in PostCalls :
            /\ \E i \in CallsOf("image"), c \in CallsOf("caption") :
                  /\ i < c /\ c < p
                  /\ calls[i].outcome = "returned"
            /\ calls[p].imageUrl \in ImageUrls
            /\ calls[p].imageUrl = run.image_url
            /\ calls[p].caption \in Captions \cup {DefaultCaption}
            /\ calls[p].caption = run.caption
            /\ run.task.type = "generate_and_post"

\* a generate_and_post run that has generated, captioned and posted to both sites
C1_Witness ==
    /\ deployment = "app"
    /\ run.pc = "done"
    /\ run.task.type = "generate_and_post"
    /\ Len(calls) = 4
    /\ calls[4].op = "twitter"

\* C3: a firing whose task id is not in schedule.json, or whose task's characterId
\* is not in characters.json, ends without any image, caption or posting call;
\* every call of a run is made for the character whose id is the task's
\* characterId, both as read from the files when the run loaded them.
C3_CallsOnlyForStoredTaskAndCharacter ==
    [][deployment = "app" =>
        /\ (run.pc = "load_schedule" /\ run'.pc # "load_schedule") =>
              IF run.task_id \in IdsOf(schedule)
              THEN /\ run'.pc = "load_characters"
                   /\ run'.task.id = run.task_id
                   /\ \E i \in 1..Len(schedule) : schedule[i] = run'.task
              ELSE run'.pc = "done" /\ calls' = <<>>
        /\ (run.pc = "load_characters" /\ run'.pc # "load_characters") =>
              IF run.task.characterId \in IdsOf(characters)
              THEN /\ run'.pc = "generate_image"
                   /\ run'.character.id = run.task.characterId
                   /\ \E i \in 1..Len(characters) : characters[i] = run'.character
              ELSE run'.pc = "done" /\ calls' = <<>>
        /\ (run.pc \in {"idle", "load_schedule", "load_characters"} => calls = <<>>)
        /\ (calls' # calls /\ calls' # <<>>) =>
              /\ Len(calls') = Len(calls) + 1
              /\ calls'[Len(calls')].characterId = run.task.characterId
              /\ calls'[Len(calls')].characterId = run.character.id
              /\ calls'[Len(calls')].prompt = run.character.name
              /\ run'.task = run.task
              /\ run'.character = run.character
    ]_vars

\* a run made a call for the stored character its task names
C3_Witness ==
    /\ deployment = "app"
    /\ Len(calls) >= 1
    /\ calls[1].characterId = run.task.characterId
    /\ run.task.characterId \in IdsOf(characters)

\* a firing found its task deleted from schedule.json
C3_WitnessTaskGone ==
    /\ deployment = "app"
    /\ run.result = "task not found"

\* C6: if image generation raises, the run stops there: the image call is the
\* run's last call (no caption, no post) and the exception is logged by the
\* job itself instead of reaching the scheduler.
C6_ImageFailureStopsRun ==
    deployment = "app" =>
        \A i \in CallsOf("image") :
            calls[i].outcome = "raised" =>
                /\ Len(calls) = i
                /\ run.pc = "done"
                /\ run.result = "error logged"

C6_Witness ==
    /\ deployment = "app"
    /\ calls # <<>>
    /\ calls[Len(calls)].op = "image"
    /\ calls[Len(calls)].outcome = "raised"

\* C7: a finished generate_and_post run whose image generation succeeded has
\* attempted the Instagram post and then the Twitter post, whether or not the
\* caption call or the Instagram post failed; both posts carry the same image
\* URL, and the caption 'Default caption.' when the caption call failed.
C7_TwitterAttemptedRegardless ==
    (/\ deployment = "app"
     /\ run.pc = "done"
     /\ run.task.type = "generate_and_post"
     /\ \E i \in CallsOf("image") : calls[i].outcome = "returned")
    => /\ Len(calls) = 4
       /\ calls[3].op = "instagram"
       /\ calls[4].op = "twitter"
       /\ calls[3].imageUrl = calls[4].imageUrl
       /\ calls[3].imageUrl = run.image_url
       /\ calls[3].caption = calls[4].caption
       /\ calls[2].outcome = "raised" => calls[4].caption = DefaultCaption
       /\ calls[2].outcome = "returned" => calls[4].caption \in Captions

\* the caption call and the Instagram post both failed, and Twitter was tried
C7_Witness ==
    /\ deployment = "app"
    /\ Len(calls) = 4
    /\ calls[2].outcome = "raised"
    /\ calls[3].outcome = "raised"
    /\ calls[4].op = "twitter"

\* ------------------------ src/python_implementation: scheduler_service.py job

\* values of the task config's postToTwitter entry
PostToTwitterValues == {"absent", "true", "false"}
ImagePaths == {"output/a.png"}

IdleImpl == [pc |-> "idle", character_id |-> 0, postToTwitter |-> "absent",
             caption |-> "", image_path |-> "", result |-> ""]

\* the record of one HTTP request of a run and of how it was answered
Request(op, character_id, caption, image_path, outcome) ==
    [op |-> op, characterId |-> character_id, caption |-> caption,
     image_path |-> image_path, outcome |-> outcome]

\* task_config.get("postToTwitter", True)
ShouldPostToTwitter(postToTwitter) == postToTwitter # "false"

\* run_generate_and_post_task with the image requested before the caption
StepAfter_image_first(step, postToTwitter) ==
    CASE step = "get_character" -> "image"
      [] step = "image" -> "caption"
      [] step = "caption" -> IF ShouldPostToTwitter(postToTwitter) THEN "twitter" ELSE "done"
      [] OTHER -> "done"

\* the order of the requests in run_generate_and_post_task's try block
StepAfter(step, postToTwitter) ==
    CASE step = "get_character" -> "caption"
      [] step = "caption" -> "image"
      [] step = "image" -> IF ShouldPostToTwitter(postToTwitter) THEN "twitter" ELSE "done"
      [] OTHER -> "done"

\* the response's status is never looked at
RaiseForStatus_unchecked(r, ok, step) ==
    LET next == StepAfter(step, r.postToTwitter)
    IN  IF next = "done" THEN [r EXCEPT !.pc = "done", !.result = "finished"]
        ELSE [r EXCEPT !.pc = next]

\* response.raise_for_status() and the reads of the response body: a failure
\* raises into the except clause, which logs it and ends the job
RaiseForStatus(r, ok, step) ==
    LET next == StepAfter(step, r.postToTwitter)
    IN  IF ~ok THEN [r EXCEPT !.pc = "done", !.result = "error logged"]
        ELSE IF next = "done" THEN [r EXCEPT !.pc = "done", !.result = "finished"]
        ELSE [r EXCEPT !.pc = next]

Outcome(ok) == IF ok THEN "ok" ELSE "failed"

\* APScheduler runs a job: run_generate_and_post_task(*job args)
FireImpl(job) ==
    /\ deployment = "impl"
    /\ run.pc = "idle"
    /\ job \in jobs
    /\ run' = [IdleImpl EXCEPT !.pc = "get_character", !.character_id = job.characterId,
                               !.postToTwitter = job.postToTwitter]
    /\ calls' = <<>>
    /\ UNCHANGED <<web, clock, generation_tasks, deployment, schedule, characters, jobs, nextId, response, remote>>

\* 1. requests.get(/api/characters/{character_id}); raise_for_status()
GetCharacter ==
    /\ deployment = "impl"
    /\ run.pc = "get_character"
    /\ \E ok \in BOOLEAN :
          \* the server answers 404 for a character that is not stored
          /\ ok => run.character_id \in IdsOf(characters)
          /\ calls' = Append(calls, Request("get_character", run.character_id, "", "", Outcome(ok)))
          /\ run' = RaiseForStatus(run, ok, "get_character")
    /\ UNCHANGED <<web, clock, generation_tasks, deployment, schedule, characters, jobs, nextId, response, remote>>

\* 2. requests.post(/api/generate-caption); raise_for_status()
RequestCaption ==
    /\ deployment = "impl"
    /\ run.pc = "caption"
    /\ \E ok \in BOOLEAN, caption \in Captions :
          /\ calls' = Append(calls, Request("caption", run.character_id, "", "", Outcome(ok)))
          /\ run' = RaiseForStatus([run EXCEPT !.caption = IF ok THEN caption ELSE ""],
                                   ok, "caption")
    /\ UNCHANGED <<web, clock, generation_tasks, deployment, schedule, characters, jobs, nextId, response, remote>>

\* 3. requests.post(/api/generate-image); raise_for_status()
RequestImage ==
    /\ deployment = "impl"
    /\ run.pc = "image"
    /\ \E ok \in BOOLEAN, image_path \in ImagePaths :
          /\ calls' = Append(calls, Request("image", run.character_id, "", "", Outcome(ok)))
          /\ run' = RaiseForStatus([run EXCEPT !.image_path = IF ok THEN image_path ELSE ""],
                                   ok, "image")
    /\ UNCHANGED <<web, clock, generation_tasks, deployment, schedule, characters, jobs, nextId, response, remote>>

\* 4. requests.post(/api/post-to-twitter): the response is not looked at
PostTwitterRequest ==
    /\ deployment = "impl"
    /\ run.pc = "twitter"
    /\ \E ok \in BOOLEAN :
          calls' = Append(calls, Request("twitter", run.character_id, run.caption,
                                         run.image_path, Outcome(ok)))
    /\ run' = [run EXCEPT !.pc = "done", !.result = "finished"]
    /\ UNCHANGED <<web, clock, generation_tasks, deployment, schedule, characters, jobs, nextId, response, remote>>

\* run_generate_and_post_task has returned
ReturnImpl ==
    /\ deployment = "impl"
    /\ run.pc = "done"
    /\ run' = IdleImpl
    /\ calls' = <<>>
    /\ UNCHANGED <<web, clock, generation_tasks, deployment, schedule, characters, jobs, nextId, response, remote>>

\* ------------------------ src/python_implementation: main.py HTTP handlers

JobOf(task) == [id |-> task.id, characterId |-> task.characterId,
                postToTwitter |-> task.postToTwitter]

\* scheduler.add_job(..., id=task.id, replace_existing=True)
AddJob(js, task) == {j \in js : j.id # task.id} \cup {JobOf(task)}

\* the job stays in the scheduler
RemoveJob_kept(js, task_id) == js

\* scheduler.remove_job(task_id), a missing job ignored
RemoveJob(js, task_id) == {j \in js : j.id # task_id}

\* POST /api/scheduler/tasks
create_scheduled_task(characterId, type, cron, active, postToTwitter) ==
    /\ deployment = "impl"
    /\ nextId < MaxIds
    /\ LET new_task == [id |-> nextId + 1, characterId |-> characterId, type |-> type,
                        schedule |-> cron, active |-> active,
                        postToTwitter |-> postToTwitter]
       IN  /\ nextId' = nextId + 1
           /\ schedule' = Append(schedule, new_task)
           \* add_task_to_scheduler: from_crontab raises after the file was saved
           /\ IF ~active
              THEN jobs' = jobs /\ response' = 201
              ELSE IF CronParses(cron)
                   THEN jobs' = AddJob(jobs, new_task) /\ response' = 201
                   ELSE jobs' = jobs /\ response' = 500
    /\ UNCHANGED <<web, clock, generation_tasks, deployment, characters, run, calls, remote>>

\* DELETE /api/scheduler/tasks/{task_id}
delete_scheduled_task(task_id) ==
    /\ deployment = "impl"
    /\ LET tasks_to_keep == WithoutId(schedule, task_id)
       IN  IF Len(tasks_to_keep) = Len(schedule)
           THEN /\ response' = 404
                /\ UNCHANGED <<schedule, jobs>>
           ELSE /\ schedule' = tasks_to_keep
                /\ jobs' = RemoveJob(jobs, task_id)
                /\ response' = 204
    /\ UNCHANGED <<web, clock, generation_tasks, deployment, characters, nextId, run, calls, remote>>

\* POST /api/characters
create_character_impl(name) ==
    /\ deployment = "impl"
    /\ nextId < MaxIds
    /\ nextId' = nextId + 1
    /\ characters' = Append(characters, [id |-> nextId + 1, name |-> name])
    /\ response' = 201
    /\ UNCHANGED <<web, clock, generation_tasks, deployment, schedule, jobs, run, calls, remote>>

\* DELETE /api/characters/{character_id}
delete_character_impl(character_id) ==
    /\ deployment = "impl"
    /\ LET characters_to_keep == WithoutId(characters, character_id)
       IN  IF Len(characters_to_keep) = Len(characters)
           THEN /\ response' = 404
                /\ UNCHANGED characters
           ELSE /\ characters' = characters_to_keep
                /\ response' = 204
    /\ UNCHANGED <<web, clock, generation_tasks, deployment, schedule, jobs, nextId, run, calls, remote>>

\* the server after scheduler_service.start() on an empty data directory
InitImpl ==
    /\ deployment = "impl"
    /\ schedule = <<>>
    /\ characters = <<>>
    /\ jobs = {}
    /\ nextId = 0
    /\ run = IdleImpl
    /\ calls = <<>>
    /\ response = NoResponse
    /\ remote = "none"
    /\ web = <<>>
    /\ clock = 0
    /\ generation_tasks = <<>>

NextImpl ==
    \/ \E job \in jobs : FireImpl(job)
    \/ GetCharacter
    \/ RequestCaption
    \/ RequestImage
    \/ PostTwitterRequest
    \/ ReturnImpl
    \/ \E c \in Ids, cron \in CronStrings, active \in BOOLEAN, p \in PostToTwitterValues :
          create_scheduled_task(c, "generate_and_post", cron, active, p)
    \/ \E t \in Ids : delete_scheduled_task(t)
    \/ \E n \in Names : create_character_impl(n)
    \/ \E c \in Ids : delete_character_impl(c)

SpecImpl == InitImpl /\ [][NextImpl]_vars

\* ------------------------------- claims about python_implementation's job

\* C2 as stated: the image-generation request is sent before the caption
\* request, and the Twitter post request is sent after both.
C2_ImageBeforeCaption ==
    deployment = "impl" =>
        /\ \A c \in CallsOf("caption") : \E i \in CallsOf("image") : i < c
        /\ \A t \in CallsOf("twitter") :
              \E i \in CallsOf("image"), c \in CallsOf("caption") : i < t /\ c < t

\* C2 amended: in every run of run_generate_and_post_task the caption request
\* is sent before the image-generation request, and the Twitter post request
\* is sent after both.
C2_CaptionImagePost ==
    deployment = "impl" =>
        /\ \A i \in CallsOf("image") : \E c \in CallsOf("caption") : c < i
        /\ \A t \in CallsOf("twitter") :
              \E i \in CallsOf("image"), c \in CallsOf("caption") : c < i /\ i < t

\* a run that sent the caption, image and Twitter requests
C2_Witness ==
    /\ deployment = "impl"
    /\ CallsOf("caption") # {}
    /\ CallsOf("image") # {}
    /\ CallsOf("twitter") # {}

\* C8: the Twitter post request is sent only if the character fetch, the
\* caption request and the image request of the same run all succeeded and the
\* task config's postToTwitter is absent or true; a failed step is the last
\* request of its run.
C8_TwitterOnlyAfterSuccess ==
    deployment = "impl" =>
        /\ \A t \in CallsOf("twitter") :
              /\ \A op \in {"get_character", "caption", "image"} :
                    \E i \in CallsOf(op) : i < t /\ calls[i].outcome = "ok"
              /\ run.postToTwitter \in {"absent", "true"}
              /\ calls[t].caption \in Captions
              /\ calls[t].image_path \in ImagePaths
        /\ \A i \in 1..Len(calls) :
              (calls[i].outcome = "failed" /\ calls[i].op # "twitter") =>
                  /\ i = Len(calls)
                  /\ run.pc = "done"

\* a run posted to Twitter for a task whose config has no postToTwitter entry
C8_Witness ==
    /\ deployment = "impl"
    /\ CallsOf("twitter") # {}
    /\ run.postToTwitter = "absent"

\* a run whose image request failed after the caption request succeeded
C8_WitnessFailure ==
    /\ deployment = "impl"
    /\ Len(calls) = 3
    /\ calls[3].op = "image"
    /\ calls[3].outcome = "failed"

\* ------------------------------------------------ the remote ComfyUI server

\* an image entry of an output node
Image(filename, type) == [filename |-> filename, type |-> type]

\* a node's output: has_images says whether it has an 'images' key
NodeOutputs ==
    { [has_images |-> FALSE, images |-> <<>>],
      [has_images |-> TRUE, images |-> <<Image("a.png", "output")>>],
      [has_images |-> TRUE, images |-> <<Image("b.png", "temp")>>],
      [has_images |-> TRUE, images |-> <<Image("b.png", "temp"), Image("a.png", "output")>>] }

\* history[prompt_id]['outputs'], in the order of the JSON object
OutputsValues == UNION {[1..n -> NodeOutputs] : n \in 0..MaxNodes}

\* GET /history/<prompt_id> before the prompt has been executed: {}
NoHistory == [known |-> FALSE, outputs |-> <<>>]

\* ComfyUI finishes the queued prompt and files its history entry
RemoteFinishes ==
    /\ deployment \in {"app", "dalla"}
    /\ run.pc = "poll"
    /\ remote = NoHistory
    /\ \E outputs \in OutputsValues : remote' = [known |-> TRUE, outputs |-> outputs]
    /\ UNCHANGED <<web, clock, generation_tasks, deployment, schedule, characters, jobs, nextId, run, calls, response>>

\* the first node of outputs, in order, that has an 'images' key (0: none)
FirstImagesNode(outputs) ==
    IF \E n \in 1..Len(outputs) : outputs[n].has_images
    THEN CHOOSE n \in 1..Len(outputs) :
            /\ outputs[n].has_images
            /\ \A k \in 1..(n - 1) : ~outputs[k].has_images
    ELSE 0

\* --------------------------------- src/app.py: _run_image_generation_sync

\* answered: whether the last history request got its answer
Polling == [pc |-> "post_prompt", polls |-> 0, answered |-> TRUE, result |-> ""]

ViewUrl(filename) == "view?filename=" \o filename

\* requests.post(/prompt); raise_for_status(); prompt_id = req.json()['prompt_id']
QueuePrompt ==
    /\ deployment = "app"
    /\ run.pc = "post_prompt"
    /\ \E ok \in BOOLEAN :
          run' = IF ok THEN [run EXCEPT !.pc = "poll"]
                 ELSE [run EXCEPT !.pc = "raised", !.result = "request failed"]
    /\ UNCHANGED <<web, clock, generation_tasks, deployment, schedule, characters, jobs, nextId, calls, response, remote>>

\* the loop left as soon as the history holds the prompt id
HistoryReady_any_entry(history) == history.known

\* prompt_id in history and history[prompt_id]['outputs']
HistoryReady(history) == history.known /\ history.outputs # <<>>

\* one turn of the while True loop: GET /history/<prompt_id>, then return,
\* raise, or time.sleep(2) and go round again
PollHistory ==
    /\ deployment = "app"
    /\ run.pc = "poll"
    /\ \E answered \in BOOLEAN :
          IF ~answered
          THEN \* requests.get raises: nothing in the function catches it
               run' = [run EXCEPT !.pc = "raised", !.answered = FALSE,
                                  !.result = "request failed"]
          ELSE IF HistoryReady(remote)
          THEN LET n == FirstImagesNode(remote.outputs)
               IN  run' = IF n # 0
                          THEN [run EXCEPT !.pc = "returned", !.answered = TRUE,
                                           !.result = ViewUrl(remote.outputs[n].images[1].filename)]
                          ELSE [run EXCEPT !.pc = "raised", !.answered = TRUE,
                                           !.result = "No image output found in completed workflow"]
          ELSE /\ run.polls < MaxPolls
               /\ run' = [run EXCEPT !.polls = run.polls + 1, !.answered = TRUE]
    /\ UNCHANGED <<web, clock, generation_tasks, deployment, schedule, characters, jobs, nextId, calls, response, remote>>

\* a call of _run_image_generation_sync(payload)
InitSync ==
    /\ deployment = "app"
    /\ schedule = <<>>
    /\ characters = <<>>
    /\ jobs = {}
    /\ nextId = 0
    /\ run = Polling
    /\ calls = <<>>
    /\ response = NoResponse
    /\ remote = NoHistory
    /\ web = <<>>
    /\ clock = 0
    /\ generation_tasks = <<>>

NextSync ==
    \/ QueuePrompt
    \/ PollHistory
    \/ RemoteFinishes

SpecSync == InitSync /\ [][NextSync]_vars

\* the view URL of the first image found in outputs
FirstImageUrl(outputs) ==
    LET withImages == {n \in 1..Len(outputs) : outputs[n].images # <<>>}
        n == CHOOSE m \in withImages : \A k \in withImages : m <= k
    IN  "view?filename=" \o outputs[n].images[1].filename

\* C4 as stated: the polling ends if and only if the remote history for the
\* prompt id has non-empty outputs; in that poll it returns the view URL of the
\* first image found or raises when no output node has images; otherwise it
\* keeps polling.
C4_EndsIffOutputs ==
    [][(deployment = "app" /\ run.pc = "poll" /\ run' # run) =>
        LET ready == remote.known /\ remote.outputs # <<>>
            noImages == \A n \in 1..Len(remote.outputs) : remote.outputs[n].images = <<>>
        IN  /\ run'.pc # "poll" <=> ready
            /\ ready => IF noImages
                        THEN run'.pc = "raised"
                        ELSE /\ run'.pc = "returned"
                             /\ run'.result = FirstImageUrl(remote.outputs)
            /\ ~ready => run'.polls = run.polls + 1
    ]_vars

\* C4 amended: the polling ends if and only if a history request itself fails
\* (the exception reaches the caller) or the remote history for the prompt id
\* has non-empty outputs; in a poll that was answered with non-empty outputs it
\* returns the view URL of the first image found or raises when no output node
\* has images; while the requests are answered and the history lacks the prompt
\* id or its outputs are empty it keeps polling, with no limit of its own.
C4_EndsIffOutputsOrRequestFails ==
    [][(deployment = "app" /\ run.pc = "poll" /\ run' # run) =>
        LET ready == remote.known /\ remote.outputs # <<>>
            noImages == \A n \in 1..Len(remote.outputs) : remote.outputs[n].images = <<>>
            failed == ~run'.answered
        IN  /\ run'.pc # "poll" <=> (ready \/ failed)
            /\ (ready /\ ~failed) =>
                    IF noImages
                    THEN run'.pc = "raised"
                    ELSE /\ run'.pc = "returned"
                         /\ run'.result = FirstImageUrl(remote.outputs)
            /\ (~ready /\ ~failed) => run'.polls = run.polls + 1
    ]_vars

\* the function returned a URL after polling while the outputs were not there
C4_Witness ==
    /\ deployment = "app"
    /\ run.pc = "returned"
    /\ run.polls >= 2
    /\ run.result \in ImageUrls

\* the function is still polling an empty history after MaxPolls rounds
C4_WitnessStillPolling ==
    /\ deployment = "app"
    /\ run.pc = "poll"
    /\ run.polls = MaxPolls
    /\ remote.known /\ remote.outputs = <<>>

\* ------------------- src/python_dalla: comfyui_client.generate_image, /generate

\* the value of Python's None as a filename
None == "None"

\* the images of outputs, node by node in order, that have type 'output'
RECURSIVE OutputImages(_)
OutputImages(outputs) ==
    IF outputs = <<>> THEN <<>>
    ELSE SelectSeq(Head(outputs).images, LAMBDA image : image.type = "output")
         \o OutputImages(Tail(outputs))

\* result = queue_prompt(workflow); if not result or 'prompt_id' not in result: return None
DallaQueuePrompt ==
    /\ deployment = "dalla"
    /\ run.pc = "post_prompt"
    /\ \E ok \in BOOLEAN :
          run' = IF ok THEN [run EXCEPT !.pc = "poll"]
                 ELSE [run EXCEPT !.pc = "returned", !.result = None]
    /\ UNCHANGED <<web, clock, generation_tasks, deployment, schedule, characters, jobs, nextId, calls, response, remote>>

\* one turn of generate_image's while True loop: history = get_history(prompt_id),
\* which is None when the request failed; return the first image of type
\* 'output', or time.sleep(1) and go round again
DallaPollHistory ==
    /\ deployment = "dalla"
    /\ run.pc = "poll"
    /\ \E answered \in BOOLEAN :
          LET found == IF answered /\ remote.known THEN OutputImages(remote.outputs) ELSE <<>>
          IN  IF found # <<>>
              THEN run' = [run EXCEPT !.pc = "returned", !.answered = TRUE,
                                      !.result = found[1].filename]
              ELSE /\ run.polls < MaxPolls
                   /\ run' = [run EXCEPT !.polls = run.polls + 1, !.answered = answered]
    /\ UNCHANGED <<web, clock, generation_tasks, deployment, schedule, characters, jobs, nextId, calls, response, remote>>

\* POST /generate after generate_image returned: redirect, or "Error generating image"
generate ==
    /\ deployment = "dalla"
    /\ run.pc = "returned"
    /\ response' = IF run.result # None THEN 302 ELSE 500
    /\ run' = [run EXCEPT !.pc = "answered"]
    /\ UNCHANGED <<web, clock, generation_tasks, deployment, schedule, characters, jobs, nextId, calls, remote>>

\* a POST to /generate has called comfyui_client.generate_image
InitGenerate ==
    /\ deployment = "dalla"
    /\ schedule = <<>>
    /\ characters = <<>>
    /\ jobs = {}
    /\ nextId = 0
    /\ run = Polling
    /\ calls = <<>>
    /\ response = NoResponse
    /\ remote = NoHistory
    /\ web = <<>>
    /\ clock = 0
    /\ generation_tasks = <<>>

NextGenerate ==
    \/ DallaQueuePrompt
    \/ DallaPollHistory
    \/ RemoteFinishes
    \/ generate

SpecGenerate == InitGenerate /\ [][NextGenerate]_vars

\* C5: generate_image terminates once the history contains an outputs entry for
\* the queued prompt id: a poll that is answered with such a history returns the
\* filename of an image of type output when there is one and None otherwise (and
\* the /generate route then answers 500 'Error generating image').
C5_ReturnsOnceOutputsEntry ==
    [][(/\ deployment = "dalla"
        /\ run.pc = "poll"
        /\ run' # run
        /\ run'.answered
        /\ remote.known) =>
            /\ run'.pc = "returned"
            /\ IF OutputImages(remote.outputs) # <<>>
               THEN \E i \in 1..Len(OutputImages(remote.outputs)) :
                       run'.result = OutputImages(remote.outputs)[i].filename
               ELSE run'.result = None
    ]_vars

\* what the code does instead: once the prompt is queued, generate_image leaves
\* its loop only with the filename of the first image of type output, never with
\* None, and goes round again after every other poll
C5_NeverNoneAfterQueue ==
    [][(deployment = "dalla" /\ run.pc = "poll" /\ run' # run) =>
        IF run'.answered /\ remote.known /\ OutputImages(remote.outputs) # <<>>
        THEN /\ run'.pc = "returned"
             /\ run'.result = OutputImages(remote.outputs)[1].filename
        ELSE /\ run'.pc = "poll"
             /\ run'.polls = run.polls + 1
    ]_vars

\* the history has an outputs entry without an image of type output, and
\* generate_image is still polling after MaxPolls rounds
C5_WitnessStillPolling ==
    /\ deployment = "dalla"
    /\ run.pc = "poll"
    /\ run.polls = MaxPolls
    /\ run.answered
    /\ remote.known
    /\ OutputImages(remote.outputs) = <<>>

\* ----------------------------------------- src/app.py: generate_from_template

\* A string is a sequence of symbols: "{", "}", " " and words.

\* the index of the first "}" of s at or after i (0: none)
FirstClose(s, i) ==
    IF \E j \in i..Len(s) : s[j] = "}"
    THEN CHOOSE j \in i..Len(s) : s[j] = "}" /\ \A k \in i..(j - 1) : s[k] # "}"
    ELSE 0

\* whether r'\{([^}]+)\}' matches s at i: a "{", one or more symbols other
\* than "}", then "}"
MatchesAt(s, i) == s[i] = "{" /\ FirstClose(s, i + 1) >= i + 2

\* re.findall(r'\{([^}]+)\}', template_string) from index i on
RECURSIVE ExtractFrom(_, _)
ExtractFrom(s, i) ==
    IF i > Len(s) THEN <<>>
    ELSE IF MatchesAt(s, i)
         THEN <<SubSeq(s, i + 1, FirstClose(s, i + 1) - 1)>>
              \o ExtractFrom(s, FirstClose(s, i + 1) + 1)
         ELSE ExtractFrom(s, i + 1)

extract_variables(template_string) == ExtractFrom(template_string, 1)

\* str.replace(old, new): every non-overlapping occurrence, left to right
RECURSIVE Replace(_, _, _)
Replace(s, old, new) ==
    IF Len(s) < Len(old) THEN s
    ELSE IF SubSeq(s, 1, Len(old)) = old
         THEN new \o Replace(SubSeq(s, Len(old) + 1, Len(s)), old, new)
         ELSE <<Head(s)>> \o Replace(Tail(s), old, new)

\* str.strip()
RECURSIVE Strip(_)
Strip(s) ==
    IF s = <<>> THEN s
    ELSE IF Head(s) = " " THEN Strip(Tail(s))
    ELSE IF s[Len(s)] = " " THEN Strip(SubSeq(s, 1, Len(s) - 1))
    ELSE s

\* prompt.replace("  ", " ").strip()
Tidy(prompt) == Strip(Replace(prompt, <<" ", " ">>, <<" ">>))

\* default_values: the character's entries, and 'style' for the lists of fixed
\* choices (its first two values)
default_values(character) ==
    (<<"character">> :> <<(<<character.name>>)>>) @@
    (<<"personality">> :> <<(<<character.personality>>)>>) @@
    (<<"style">> :> <<(<<"cinematic">>), (<<"artistic">>)>>)

\* random.choice(values), the draw given as pick
Choice(values, pick) == values[((pick - 1) % Len(values)) + 1]

\* the elif chain tried with the defaults before the custom variables
Substitute_default_first(var, character, custom_variables, pick) ==
    IF var \in DOMAIN default_values(character)
    THEN Choice(default_values(character)[var], pick)
    ELSE IF var \in DOMAIN custom_variables THEN custom_variables[var]
    ELSE <<>>

\* the value the loop body puts in the place of {var}
Substitute(var, character, custom_variables, pick) ==
    IF var \in DOMAIN custom_variables THEN custom_variables[var]
    ELSE IF var \in DOMAIN default_values(character)
         THEN Choice(default_values(character)[var], pick)
    ELSE <<>>

\* for var in variables: prompt = prompt.replace(placeholder, value), the k-th
\* turn of the loop drawing picks[k]
RECURSIVE ReplaceEach(_, _, _, _, _, _)
ReplaceEach(prompt, variables, k, character, custom_variables, picks) ==
    IF variables = <<>> THEN prompt
    ELSE LET var == Head(variables)
             placeholder == <<"{">> \o var \o <<"}">>
         IN  ReplaceEach(Replace(prompt, placeholder,
                                 Substitute(var, character, custom_variables, picks[k])),
                         Tail(variables), k + 1, character, custom_variables, picks)

generate_from_template(template, character, custom_variables, picks) ==
    Tidy(ReplaceEach(template, extract_variables(template), 1,
                     character, custom_variables, picks))

\* the pieces templates are put together from
Segments ==
    { <<"{", "character", "}">>, <<"{", "style", "}">>, <<"{", "mood", "}">>,
      <<" ">>, <<"portrait">> }

RECURSIVE Flatten(_)
Flatten(segments) ==
    IF segments = <<>> THEN <<>> ELSE Head(segments) \o Flatten(Tail(segments))

Templates == {Flatten(t) : t \in UNION {[1..n -> Segments] : n \in 0..MaxSegments}}

TemplateCharacters == {[name |-> "Ava", personality |-> "bold"]}

\* the values a request gives for a variable
CustomValues == {<<"noir">>, <<"{", "style", "}">>}
CustomKeys == {<<"character">>, <<"style">>, <<"mood">>}

\* customVariables of the request: a dict over some of the keys
CustomVariablesValues == UNION {[keys -> CustomValues] : keys \in SUBSET CustomKeys}

\* the draws of random.choice, one for each turn of the loop
Picks == [1..MaxSegments -> 1..2]

Calling == [pc |-> "call", template |-> <<>>, character |-> [name |-> "", personality |-> ""],
            custom_variables |-> <<>>, result |-> <<>>]

\* prompt_text = generate_from_template(template, character, customVariables)
GenerateFromTemplate ==
    /\ deployment = "app"
    /\ run.pc = "call"
    /\ \E picks \in Picks :
          run' = [run EXCEPT !.pc = "returned",
                             !.result = generate_from_template(run.template, run.character,
                                                               run.custom_variables, picks)]
    /\ UNCHANGED <<web, clock, generation_tasks, deployment, schedule, characters, jobs, nextId, calls, response, remote>>

\* _generate_single_prompt is about to call generate_from_template
InitTemplate ==
    /\ deployment = "app"
    /\ schedule = <<>>
    /\ characters = <<>>
    /\ jobs = {}
    /\ nextId = 0
    /\ \E template \in Templates, character \in TemplateCharacters,
          custom_variables \in CustomVariablesValues :
          run = [Calling EXCEPT !.template = template, !.character = character,
                                !.custom_variables = custom_variables]
    /\ calls = <<>>
    /\ response = NoResponse
    /\ remote = "none"
    /\ web = <<>>
    /\ clock = 0
    /\ generation_tasks = <<>>

NextTemplate == GenerateFromTemplate

SpecTemplate == InitTemplate /\ [][NextTemplate]_vars

\* the template with every placeholder found in it resolved in place: the custom
\* value if the variable has one, else the default drawn for its key, else nothing
RECURSIVE Resolved(_, _, _, _, _)
Resolved(s, i, character, custom_variables, draw) ==
    IF i > Len(s) THEN <<>>
    ELSE IF MatchesAt(s, i)
         THEN LET var == SubSeq(s, i + 1, FirstClose(s, i + 1) - 1)
                  value == IF var \in DOMAIN custom_variables THEN custom_variables[var]
                           ELSE IF var \in DOMAIN default_values(character)
                                THEN default_values(character)[var][draw[var]]
                           ELSE <<>>
              IN  value \o Resolved(s, FirstClose(s, i + 1) + 1, character,
                                    custom_variables, draw)
         ELSE <<s[i]>> \o Resolved(s, i + 1, character, custom_variables, draw)

\* one default value drawn for each default key
Draws(character) ==
    {d \in [DOMAIN default_values(character) -> 1..2] :
        \A key \in DOMAIN d : d[key] <= Len(default_values(character)[key])}

\* C9: generate_from_template resolves every placeholder {v} found in the
\* template text: the custom value if v is a key of customVariables, otherwise
\* one of the key's default values if v is a default key, otherwise nothing;
\* the returned prompt is the template so resolved (with its spaces tidied).
C9_EveryPlaceholderResolved ==
    (deployment = "app" /\ run.pc = "returned") =>
        \E draw \in Draws(run.character) :
            run.result = Tidy(Resolved(run.template, 1, run.character,
                                       run.custom_variables, draw))

Braces(s) == {i \in 1..Len(s) : s[i] \in {"{", "}"}}

\* what holds of the code: the same, as long as no custom value holds a brace
C9_ResolvedWithoutBracesInValues ==
    (/\ deployment = "app"
     /\ run.pc = "returned"
     /\ \A key \in DOMAIN run.custom_variables : Braces(run.custom_variables[key]) = {})
    => \E draw \in Draws(run.character) :
            run.result = Tidy(Resolved(run.template, 1, run.character,
                                       run.custom_variables, draw))

\* a custom value was put in the place of a placeholder that also has a default
C9_WitnessCustomOverDefault ==
    /\ deployment = "app"
    /\ run.pc = "returned"
    /\ run.template = <<"{", "style", "}", " ", "portrait">>
    /\ <<"style">> \in DOMAIN run.custom_variables
    /\ run.result = <<"noir", " ", "portrait">>

\* ------------------------------------ the delete handlers of both servers

FileIds == 1..MaxFile

\* the lists of at most MaxFile records with pairwise different ids
Files(records) ==
    {f \in UNION {[1..n -> records] : n \in 0..MaxFile} :
        \A i, j \in 1..Len(f) : i # j => f[i].id # f[j].id}

StoredCharacters(names) == [id : FileIds, name : names]

\* tasks as add_task stores them
StoredTasks ==
    [id : FileIds, characterId : {1}, type : {"generate_and_post"},
     schedule : {"0 9 * * *"}, active : {TRUE}]

\* tasks as create_scheduled_task stores them
StoredTasksImpl ==
    [id : FileIds, characterId : {1}, type : {"generate_and_post"},
     schedule : {"0 9 * * *"}, active : BOOLEAN, postToTwitter : {"absent"}]

\* src/app.py started on stored files: initialize_scheduler has added a job
\* for every active task
InitAppStored ==
    /\ deployment = "app"
    /\ schedule \in Files(StoredTasks)
    /\ characters \in Files(StoredCharacters(Names))
    /\ jobs = {schedule[i].id : i \in {k \in 1..Len(schedule) : schedule[k].active}}
    /\ nextId = MaxFile
    /\ run = Idle
    /\ calls = <<>>
    /\ response = NoResponse
    /\ remote = "none"
    /\ web = <<>>
    /\ clock = 0
    /\ generation_tasks = <<>>

\* python_implementation started on stored files: scheduler_service.start has
\* added a job for every active task
InitImplStored ==
    /\ deployment = "impl"
    /\ schedule \in Files(StoredTasksImpl)
    /\ characters \in Files(StoredCharacters({"Ava"}))
    /\ jobs = {JobOf(schedule[i]) : i \in {k \in 1..Len(schedule) : schedule[k].active}}
    /\ nextId = MaxFile
    /\ run = IdleImpl
    /\ calls = <<>>
    /\ response = NoResponse
    /\ remote = "none"
    /\ web = <<>>
    /\ clock = 0
    /\ generation_tasks = <<>>

InitDelete == InitAppStored \/ InitImplStored

NextDelete ==
    \/ \E t \in FileIds \cup {MaxFile + 1} : delete_task(t)
    \/ \E c \in FileIds \cup {MaxFile + 1} : delete_character(c)
    \/ \E t \in FileIds \cup {MaxFile + 1} : delete_scheduled_task(t)
    \/ \E c \in FileIds \cup {MaxFile + 1} : delete_character_impl(c)

SpecDelete == InitDelete /\ [][NextDelete]_vars

\* the records of before whose id is not id
KeptPositions(before, id) == {i \in 1..Len(before) : before[i].id # id}

\* after holds the records of before whose id is not id, each as it was and in
\* the order they had, and nothing else
RemovedExactly(before, after, id) ==
    /\ Len(after) = Cardinality(KeptPositions(before, id))
    /\ \A i \in KeptPositions(before, id) :
          after[Cardinality({j \in KeptPositions(before, id) : j <= i})] = before[i]

\* what a delete request for id did to the list file and to the job set
DeleteContract(before, after, id, ok) ==
    IF id \in IdsOf(before)
    THEN /\ RemovedExactly(before, after, id)
         /\ response' = ok
    ELSE /\ after = before
         /\ jobs' = jobs
         /\ response' = 404

\* C10: a delete request for an id that is not in the stored list answers 404
\* and leaves the file and the scheduler's job set as they were; a delete for
\* an id that is present removes exactly the records with that id and keeps
\* every other record unchanged and in the same order (delete_task and
\* delete_character of src/app.py, delete_scheduled_task and delete_character
\* of python_implementation).
C10_DeleteContract ==
    [][\A id \in FileIds \cup {MaxFile + 1} :
        /\ delete_task(id) =>
              DeleteContract(schedule, schedule', id, 200) /\ characters' = characters
        /\ delete_character(id) =>
              /\ DeleteContract(characters, characters', id, 200)
              /\ schedule' = schedule /\ jobs' = jobs
        /\ delete_scheduled_task(id) =>
              DeleteContract(schedule, schedule', id, 204) /\ characters' = characters
        /\ delete_character_impl(id) =>
              /\ DeleteContract(characters, characters', id, 204)
              /\ schedule' = schedule /\ jobs' = jobs
    ]_vars

\* a delete has removed a record from between two others, which stay in order
C10_Witness ==
    /\ deployment = "app"
    /\ response = 200
    /\ Len(schedule) = 2
    /\ schedule[1].id = 1 /\ schedule[2].id = 3
    /\ jobs = {1, 3}

\* a delete for an unknown id was answered 404
C10_Witness404 ==
    /\ deployment = "impl"
    /\ response = 404
    /\ Len(schedule) = MaxFile

\* ------------------------- python_dalla: scheduled posts and their worker

\* a post_at that datetime.fromisoformat rejects
BadDate == -1

PostAtValues == (0..MaxClock) \cup {BadDate}

\* character ids a schedule request may carry; characters.json holds the first
DallaCharacterIds == {1, 2}

DallaCharacters == <<[id |-> 1, name |-> "Ava"]>>

\* new_job of schedule_post_route
NewJob(id, character_id, post_at) ==
    [id |-> id, character_id |-> character_id, post_at |-> post_at, status |-> "scheduled",
     error_message |-> None]

\* the worker between two passes
Sleeping == [pc |-> "sleep", jobs |-> <<>>, loaded |-> <<>>, now |-> 0, i |-> 0,
             updated |-> FALSE, passes |-> 0]

\* get_character(job['character_id'], characters)
get_character(character_id, chars) == FindById(chars, character_id, NoCharacter)

\* the pass ends at the first job that failed
AfterJob_stops_at_failure(r) ==
    IF r.i < Len(r.jobs) /\ r.jobs[r.i].status # "failed" THEN [r EXCEPT !.i = r.i + 1]
    ELSE [r EXCEPT !.i = r.i + 1, !.pc = IF r.updated THEN "save" ELSE "sleep"]

\* where the pass goes once job i is dealt with: the next job, or the end of
\* the for loop, where the file is saved only when a job was updated
AfterJob(r) ==
    IF r.i < Len(r.jobs) THEN [r EXCEPT !.i = r.i + 1]
    ELSE [r EXCEPT !.i = r.i + 1, !.pc = IF r.updated THEN "save" ELSE "sleep"]

\* the job is marked but the pass does not note that it has to save
SetStatus_not_noted(r, status, error_message) ==
    [r EXCEPT !.jobs[r.i].status = status, !.jobs[r.i].error_message = error_message]

\* job['status'] = status; job['error_message'] = error_message (None: the key
\* is not set); updated = True
SetStatus(r, status, error_message) ==
    [r EXCEPT !.jobs[r.i].status = status, !.jobs[r.i].error_message = error_message,
              !.updated = TRUE]

\* the pass posts the jobs whether or not they are due
Due_always(job, now) == TRUE

\* post_at <= now
Due(job, now) == job.post_at <= now

\* the head of a pass: both files are loaded and the clock is read
LoadPass ==
    /\ deployment = "dalla"
    /\ run.pc = "sleep"
    /\ run.passes < MaxPasses
    /\ run' = IF schedule = <<>>
              THEN [run EXCEPT !.passes = run.passes + 1, !.jobs = <<>>, !.loaded = <<>>,
                               !.now = clock, !.i = 1, !.updated = FALSE]
              ELSE [pc |-> "loop", jobs |-> schedule, loaded |-> schedule, now |-> clock,
                    i |-> 1, updated |-> FALSE, passes |-> run.passes + 1]
    /\ UNCHANGED <<web, clock, generation_tasks, deployment, schedule, characters, jobs, nextId, calls, response, remote>>

\* the body of the for loop for the job at position i
ProcessJob ==
    /\ deployment = "dalla"
    /\ run.pc = "loop"
    /\ run.i <= Len(run.jobs)
    /\ LET job == run.jobs[run.i] IN
         IF job.status # "scheduled"
         THEN /\ run' = AfterJob(run)
              /\ calls' = calls
         ELSE IF job.post_at = BadDate
         THEN /\ run' = AfterJob(SetStatus(run, "failed", "Invalid job data"))
              /\ calls' = calls
         ELSE IF ~Due(job, run.now)
         THEN /\ run' = AfterJob(run)
              /\ calls' = calls
         ELSE IF get_character(job.character_id, characters) = NoCharacter
         THEN /\ run' = AfterJob(SetStatus(run, "failed", "Character not found."))
              /\ calls' = calls
         ELSE /\ calls' = Append(calls, job.id)
              /\ \/ run' = AfterJob(SetStatus(run, "completed", None))
                 \/ run' = AfterJob(SetStatus(run, "failed", "API Error"))
    /\ UNCHANGED <<web, clock, generation_tasks, deployment, schedule, characters, jobs, nextId, response, remote>>

\* save_json_file(SCHEDULER_FILE, jobs): the whole file is replaced by the
\* pass's list, or the write fails, is logged, and the file stays as it was
SaveJobs(written) ==
    /\ deployment = "dalla"
    /\ run.pc = "save"
    /\ schedule' = IF written THEN run.jobs ELSE schedule
    /\ run' = [run EXCEPT !.pc = "sleep"]
    /\ UNCHANGED <<web, clock, generation_tasks, deployment, characters, jobs, nextId, calls, response, remote>>

\* time passes
Tick ==
    /\ deployment = "dalla"
    /\ clock < MaxClock
    /\ clock' = clock + 1
    /\ UNCHANGED <<web, generation_tasks, deployment, schedule, characters, jobs, nextId, run, calls, response, remote>>

\* schedule_post_route up to jobs = load_scheduler_jobs(); the form is complete
schedule_post_route_load(character_id, post_at) ==
    /\ deployment = "dalla"
    /\ nextId < MaxIds
    /\ nextId' = nextId + 1
    /\ web' = web \cup {[id |-> nextId + 1, jobs |-> schedule,
                         character_id |-> character_id, post_at |-> post_at]}
    /\ UNCHANGED <<clock, generation_tasks, deployment, schedule, characters, jobs, run, calls, response, remote>>

\* schedule_post_route from jobs.append(new_job) on: the whole file is
\* replaced by the list the request loaded, with the new job at its end
schedule_post_route_save ==
    /\ deployment = "dalla"
    /\ \E req \in web :
          /\ schedule' = Append(req.jobs, NewJob(req.id, req.character_id, req.post_at))
          /\ web' = web \ {req}
    /\ response' = 302
    /\ UNCHANGED <<clock, generation_tasks, deployment, characters, jobs, nextId, run, calls, remote>>

InitDalla ==
    /\ deployment = "dalla"
    /\ schedule = <<>>
    /\ characters = DallaCharacters
    /\ jobs = {}
    /\ nextId = 0
    /\ run = Sleeping
    /\ calls = <<>>
    /\ response = NoResponse
    /\ remote = "none"
    /\ web = {}
    /\ clock = 0
    /\ generation_tasks = <<>>

NextDalla ==
    \/ LoadPass
    \/ ProcessJob
    \/ \E written \in BOOLEAN : SaveJobs(written)
    \/ Tick
    \/ \E c \in DallaCharacterIds, p \in PostAtValues : schedule_post_route_load(c, p)
    \/ schedule_post_route_save

SpecDalla == InitDalla /\ [][NextDalla]_vars

\* the step is the pass's post_to_instagram call for the job at position i
Posts == deployment = "dalla" /\ calls' # calls

\* C11: the worker calls post_to_instagram for a job only in a pass that
\* loaded the job with status 'scheduled' and with a post_at not later than
\* the clock read at the head of the pass; a job the pass loaded as
\* 'completed' or 'failed' is not posted in it, and the pass keeps that
\* status, in its list and in what it writes to the file.
C11_PostsOnlyDueScheduled ==
    [][/\ Posts =>
            /\ run.loaded[run.i].status = "scheduled"
            /\ run.loaded[run.i].post_at # BadDate
            /\ run.loaded[run.i].post_at <= run.now
            /\ calls' = Append(calls, run.loaded[run.i].id)
       /\ (deployment = "dalla" /\ run.pc \in {"loop", "save"}) =>
            \A k \in 1..Len(run.loaded) :
                run.loaded[k].status \in {"completed", "failed"} =>
                    /\ run'.jobs[k] = run.loaded[k]
                    /\ (Posts => k # run.i)
                    /\ (run.pc = "save" /\ run'.pc = "sleep" /\ schedule' # schedule) =>
                            schedule'[k] = run.loaded[k]
    ]_vars

\* a pass has posted a due job and passed over one that is already completed
C11_Witness ==
    /\ deployment = "dalla"
    /\ Len(run.loaded) = 2
    /\ run.loaded[1].status = "completed"
    /\ run.loaded[2].status = "scheduled"
    /\ run.jobs[2].status = "completed"
    /\ Len(calls) = 2

\* C15: each job of scheduler.json is passed to post_to_instagram at most
\* once over the life of the system.
C15_PostedAtMostOnce ==
    \A i, j \in 1..Len(calls) : calls[i] = calls[j] => i = j

\* C16: a job that is in scheduler.json with status 'scheduled' stays in the
\* file: no step of the worker and no schedule request removes it.
C16_ScheduledJobStays ==
    [][\A k \in 1..Len(schedule) :
          (deployment = "dalla" /\ schedule[k].status = "scheduled") =>
              schedule[k].id \in IdsOf(schedule')]_vars

\* ------------------------------ the schedulers' job sets and the task files

\* scheduler.json as a started python_implementation finds it: tasks of
\* earlier runs, active or not, with schedules the cron parser accepts (start()
\* does not return otherwise)
StartedTasks ==
    UNION {[1..n -> [id : Ids, characterId : {1}, type : {"generate_and_post"},
                     schedule : {"0 9 * * *"}, active : BOOLEAN, postToTwitter : {"absent"}]]
           : n \in 0..(MaxIds - 1)}

\* python_implementation after scheduler_service.start(): a job for every
\* active task of the file
InitImplStarted ==
    /\ deployment = "impl"
    /\ schedule \in {f \in StartedTasks : \A i \in 1..Len(f) : f[i].id = i}
    /\ characters = <<>>
    /\ jobs = {JobOf(schedule[i]) : i \in {k \in 1..Len(schedule) : schedule[k].active}}
    /\ nextId = Len(schedule)
    /\ run = IdleImpl
    /\ calls = <<>>
    /\ response = NoResponse
    /\ remote = "none"
    /\ web = <<>>
    /\ clock = 0
    /\ generation_tasks = <<>>

SpecImplStarted == InitImplStarted /\ [][NextImpl]_vars

\* the stored tasks with that id
TasksWithId(t) == {i \in 1..Len(schedule) : schedule[i].id = t}

\* C12: in python_implementation, for tasks whose schedule the cron parser
\* accepts, the scheduler holds a job with id t exactly when scheduler.json
\* holds a task t whose active flag is true, after any sequence of
\* create_scheduled_task and delete_scheduled_task requests, the tasks
\* loaded at startup included.
C12_JobIffActiveTask ==
    deployment = "impl" =>
        \A t \in Ids :
            (\A i \in TasksWithId(t) : CronParses(schedule[i].schedule)) =>
                ((\E j \in jobs : j.id = t) <=> (\E i \in TasksWithId(t) : schedule[i].active))

\* a task loaded at startup was deleted; an active task created afterwards
\* has its job and nothing else has
C12_Witness ==
    /\ deployment = "impl"
    /\ response = 204
    /\ Len(schedule) = 1
    /\ schedule[1].id = 2
    /\ schedule[1].active
    /\ {j.id : j \in jobs} = {2}

\* an inactive task is stored and has no job
C12_WitnessInactive ==
    /\ deployment = "impl"
    /\ \E i \in 1..Len(schedule) :
          /\ ~schedule[i].active
          /\ CronParses(schedule[i].schedule)
          /\ \A j \in jobs : j.id # schedule[i].id

\* C13: in src/app.py the scheduler holds a job with id t exactly when
\* schedule.json holds a task with id t whose active flag is true.  Stated
\* here for the tasks whose schedule the cron parser accepts only.
C13_JobIffActiveTask ==
    deployment = "app" =>
        \A t \in Ids :
            (\A i \in TasksWithId(t) : CronParses(schedule[i].schedule)) =>
                (t \in jobs <=> (\E i \in TasksWithId(t) : schedule[i].active))

\* what holds of src/app.py: the job of a task with an accepted schedule is
\* there whatever the active flag says
C13_JobWhateverTheFlag ==
    deployment = "app" =>
        \A t \in Ids :
            (TasksWithId(t) # {} /\ \A i \in TasksWithId(t) : CronParses(schedule[i].schedule))
                => t \in jobs

\* both servers with their task handlers
InitServers == InitApp \/ InitImplStarted

NextServers == NextApp \/ NextImpl

SpecServers == InitServers /\ [][NextServers]_vars

\* C14: a task-creation request whose schedule the cron parser rejects fails
\* and leaves the task file and the job set as they were (add_task of
\* src/app.py; create_scheduled_task of python_implementation, for an active
\* task, the only ones whose schedule is parsed).
C14_RejectedScheduleLeavesNoTrace ==
    [][\A cron \in {c \in CronStrings : ~CronParses(c)} :
        /\ \A c \in Ids, ty \in TaskTypes :
              add_task(c, ty, cron) =>
                  schedule' = schedule /\ jobs' = jobs /\ response' >= 400
        /\ \A c \in Ids, p \in PostToTwitterValues :
              create_scheduled_task(c, "generate_and_post", cron, TRUE, p) =>
                  schedule' = schedule /\ jobs' = jobs /\ response' >= 400
    ]_vars

\* what holds of both servers: the request fails, no job is added, and the
\* task is in the file all the same
C14_RejectedScheduleIsStored ==
    [][\A cron \in {c \in CronStrings : ~CronParses(c)} :
        /\ \A c \in Ids, ty \in TaskTypes :
              add_task(c, ty, cron) =>
                  /\ Len(schedule') = Len(schedule) + 1
                  /\ schedule'[Len(schedule')].schedule = cron
                  /\ jobs' = jobs /\ response' = 500
        /\ \A c \in Ids, p \in PostToTwitterValues :
              create_scheduled_task(c, "generate_and_post", cron, TRUE, p) =>
                  /\ Len(schedule') = Len(schedule) + 1
                  /\ schedule'[Len(schedule')].schedule = cron
                  /\ jobs' = jobs /\ response' = 500
    ]_vars

\* --------------------------- src/app.py: image generations run in threads

MimeTypes == {"image/png"}

\* generation_tasks[task_id] = {"status": "running", "result": None}
Running == [status |-> "running", result |-> None]

\* the entry without the mime type
Completed_data_only(image_data, mime_type) ==
    [status |-> "completed", result |-> [image_data |-> image_data]]

\* {"status": "completed", "result": {"image_data": ..., "mime_type": ...}}
Completed(image_data, mime_type) ==
    [status |-> "completed",
     result |-> [image_data |-> image_data, mime_type |-> mime_type]]

\* {"status": "failed", "error": str(e)}
Failed(error) == [status |-> "failed", error |-> error]

\* generation_tasks[task_id] = entry
Store(task_id, entry) ==
    [t \in DOMAIN generation_tasks \cup {task_id} |->
        IF t = task_id THEN entry ELSE generation_tasks[t]]

\* a thread at pc becomes the thread next
Moves(thread, next) == web' = (web \ {thread}) \cup next

\* POST /api/generate-image: the thread is started and the task id returned;
\* valid is FALSE for a body without prompt or model
generate_image(valid) ==
    /\ deployment = "app"
    /\ IF ~valid
       THEN /\ response' = 400
            /\ UNCHANGED <<web, nextId>>
       ELSE /\ nextId < MaxIds
            /\ nextId' = nextId + 1
            /\ web' = web \cup {[task_id |-> nextId + 1, pc |-> "start", image_url |-> ""]}
            /\ response' = 200
    /\ UNCHANGED <<clock, generation_tasks, deployment, schedule, characters, jobs, run, calls, remote>>

\* _run_image_generation_async, its first statement
ThreadStart ==
    /\ deployment = "app"
    /\ \E thread \in web :
          /\ thread.pc = "start"
          /\ generation_tasks' = Store(thread.task_id, Running)
          /\ Moves(thread, {[thread EXCEPT !.pc = "generate"]})
    /\ UNCHANGED <<clock, deployment, schedule, characters, jobs, nextId, run, calls, response, remote>>

\* image_url = _run_image_generation_sync(payload): it returns a view URL or
\* raises (or does neither, and the thread stays here)
ThreadGenerate ==
    /\ deployment = "app"
    /\ \E thread \in web :
          /\ thread.pc = "generate"
          /\ \/ \E url \in ImageUrls :
                   /\ Moves(thread, {[thread EXCEPT !.pc = "get_image_data", !.image_url = url]})
                   /\ UNCHANGED generation_tasks
             \/ /\ generation_tasks' = Store(thread.task_id, Failed("generation failed"))
                /\ Moves(thread, {})
    /\ UNCHANGED <<clock, deployment, schedule, characters, jobs, nextId, run, calls, response, remote>>

\* image_data, mime_type = _get_image_data(filename), then the last store
ThreadGetImageData ==
    /\ deployment = "app"
    /\ \E thread \in web :
          /\ thread.pc = "get_image_data"
          /\ \/ \E mime_type \in MimeTypes :
                   generation_tasks' = Store(thread.task_id, Completed(thread.image_url, mime_type))
             \/ generation_tasks' = Store(thread.task_id, Failed("request failed"))
          /\ Moves(thread, {})
    /\ UNCHANGED <<clock, deployment, schedule, characters, jobs, nextId, run, calls, response, remote>>

\* GET /api/generation-status/<task_id>
get_generation_status(task_id) ==
    /\ deployment = "app"
    /\ response' = IF task_id \in DOMAIN generation_tasks THEN 200 ELSE 404
    /\ UNCHANGED <<web, clock, generation_tasks, deployment, schedule, characters, jobs, nextId, run, calls, remote>>

InitGeneration ==
    /\ deployment = "app"
    /\ schedule = <<>>
    /\ characters = <<>>
    /\ jobs = {}
    /\ nextId = 0
    /\ run = Idle
    /\ calls = <<>>
    /\ response = NoResponse
    /\ remote = "none"
    /\ web = {}
    /\ clock = 0
    /\ generation_tasks = <<>>

NextGeneration ==
    \/ \E valid \in BOOLEAN : generate_image(valid)
    \/ ThreadStart
    \/ ThreadGenerate
    \/ ThreadGetImageData
    \/ \E t \in Ids : get_generation_status(t)

SpecGeneration == InitGeneration /\ [][NextGeneration]_vars

\* C17: for every task id that POST /api/generate-image has returned, a later
\* GET /api/generation-status/<task_id> finds the task; it never answers 404.
C17_HandedOutIdIsFound ==
    [][\A t \in 1..nextId : get_generation_status(t) => response' # 404]_vars

\* what holds of the code: the id is found once its thread has run its first
\* statement
C17_FoundOnceThreadStarted ==
    [][\A t \in 1..nextId :
          (get_generation_status(t) /\ \A thread \in web : ~(thread.task_id = t /\ thread.pc = "start"))
              => response' = 200]_vars

\* the two entries are the same dictionary
SameEntry(a, b) ==
    /\ a.status = b.status
    /\ DOMAIN a = DOMAIN b
    /\ \A f \in DOMAIN a : a[f] = b[f]

\* C20: an entry of generation_tasks is created with status 'running', changes
\* only from 'running', to 'completed' with result.image_data and
\* result.mime_type or to 'failed' with an error string, and is never removed.
C20_EntryLifeCycle ==
    [][deployment = "app" =>
        /\ DOMAIN generation_tasks \subseteq DOMAIN generation_tasks'
        /\ \A t \in DOMAIN generation_tasks' :
              LET after == generation_tasks'[t] IN
              IF t \notin DOMAIN generation_tasks
              THEN /\ after.status = "running"
                   /\ DOMAIN after = {"status", "result"}
                   /\ after.result = None
              ELSE \/ SameEntry(after, generation_tasks[t])
                   \/ /\ generation_tasks[t].status = "running"
                      /\ \/ /\ after.status = "completed"
                            /\ DOMAIN after = {"status", "result"}
                            /\ DOMAIN after.result = {"image_data", "mime_type"}
                         \/ /\ after.status = "failed"
                            /\ DOMAIN after = {"status", "error"}
    ]_vars

\* one generation has completed and another has failed
C20_Witness ==
    /\ deployment = "app"
    /\ DOMAIN generation_tasks = {1, 2}
    /\ generation_tasks[1].status = "completed"
    /\ generation_tasks[2].status = "failed"

\* ------------------------------------- src/app.py: runs of a deleted task

\* the id was handed out and no stored task has it
Gone(t) == t \in 1..nextId /\ t \notin IdsOf(schedule)

\* no run of execute_scheduled_task(t) is past its load of the schedule: one
\* that was submitted is about to load, or has returned at 'task not found'
NoRunPastLoad(t) ==
    run.task_id = t =>
        /\ run.pc \in {"load_schedule", "done"}
        /\ run.task = NoTask
        /\ calls = <<>>

\* C19: once DELETE /api/scheduler/<task_id> has returned success, the task
\* and its job are gone for good, and a run for that id that begins
\* afterwards, a firing that was already submitted included, ends at its
\* load of the schedule without any image, caption or posting call.
C19_NoCallsAfterDelete ==
    [][\A t \in Ids :
        /\ (delete_task(t) /\ response' = 200) => (Gone(t)' /\ t \notin jobs')
        /\ (deployment = "app" /\ Gone(t) /\ NoRunPastLoad(t)) => (Gone(t)' /\ NoRunPastLoad(t)')
    ]_vars

\* a firing was submitted, the task was deleted, and the run found no task
C19_Witness ==
    /\ deployment = "app"
    /\ run.pc = "done"
    /\ run.task_id \in Ids
    /\ run.result = "task not found"
    /\ Gone(run.task_id)
    /\ run.task_id \notin jobs
    /\ response = 200
    /\ calls = <<>>

\* ------------- python_implementation: generate_image waits on a WebSocket

\* the prompt id queue_prompt returned, and one of another client
PromptId == "p1"
OtherPromptId == "p2"

\* {"type": "executing", "data": {"node": None, "prompt_id": prompt_id}}
Executing(node, prompt_id) == [type |-> "executing", node |-> node, prompt_id |-> prompt_id]

\* what ComfyUI pushes besides the completion event of the queued prompt
OtherMessages ==
    {Executing("3", PromptId), Executing(None, OtherPromptId),
     [type |-> "status", node |-> None, prompt_id |-> None]}

\* any executing message of the prompt ends the wait
ExecutionDone_any_node(message, prompt_id) ==
    message.type = "executing" /\ message.prompt_id = prompt_id

\* message['type'] == 'executing' and node is None and prompt_id matches
ExecutionDone(message, prompt_id) ==
    /\ message.type = "executing"
    /\ message.node = None
    /\ message.prompt_id = prompt_id

\* the handler before comfyui_utils.queue_prompt
Requesting == [pc |-> "queue_prompt", image_data |-> None]

\* ComfyUI before the prompt is queued: nothing queued, no socket, nothing pushed
RemoteIdle == [state |-> "idle", connected |-> FALSE, inbox |-> <<>>, pushed |-> 0]

\* prompt_id = comfyui_utils.queue_prompt(workflow, COMFYUI_URL)
ImplQueuePrompt ==
    /\ deployment = "impl"
    /\ run.pc = "queue_prompt"
    /\ \/ /\ run' = [run EXCEPT !.pc = "connect"]
          /\ remote' = [remote EXCEPT !.state = "queued"]
          /\ UNCHANGED response
       \/ \* raise_for_status raises: the handler answers 500
          /\ run' = [run EXCEPT !.pc = "returned"]
          /\ response' = 500
          /\ UNCHANGED remote
    /\ UNCHANGED <<web, clock, generation_tasks, deployment, schedule, characters, jobs, nextId, calls>>

\* ComfyUI finishes the queued prompt and pushes the completion event to the
\* sockets that are connected at that moment
RemoteCompletes ==
    /\ deployment = "impl"
    /\ remote.state = "queued"
    /\ remote' = [remote EXCEPT
                     !.state = "finished",
                     !.inbox = IF remote.connected
                               THEN Append(remote.inbox, Executing(None, PromptId))
                               ELSE remote.inbox]
    /\ UNCHANGED <<web, clock, generation_tasks, deployment, schedule, characters, jobs, nextId, run, calls, response>>

\* ComfyUI pushes another message to the connected socket
RemotePushes ==
    /\ deployment = "impl"
    /\ remote.connected
    /\ remote.pushed < MaxMessages
    /\ \E message \in OtherMessages :
          remote' = [remote EXCEPT !.inbox = Append(remote.inbox, message),
                                   !.pushed = remote.pushed + 1]
    /\ UNCHANGED <<web, clock, generation_tasks, deployment, schedule, characters, jobs, nextId, run, calls, response>>

\* ws.connect(ws_url)
Connect ==
    /\ deployment = "impl"
    /\ run.pc = "connect"
    /\ run' = [run EXCEPT !.pc = "recv"]
    /\ remote' = [remote EXCEPT !.connected = TRUE]
    /\ UNCHANGED <<web, clock, generation_tasks, deployment, schedule, characters, jobs, nextId, calls, response>>

\* out = ws.recv() and the test of the message; recv blocks on an empty socket
Recv ==
    /\ deployment = "impl"
    /\ run.pc = "recv"
    /\ remote.inbox # <<>>
    /\ remote' = [remote EXCEPT
                     !.inbox = Tail(remote.inbox),
                     !.connected = ~ExecutionDone(Head(remote.inbox), PromptId)]
    /\ run' = IF ExecutionDone(Head(remote.inbox), PromptId)
              THEN [run EXCEPT !.pc = "history"]
              ELSE run
    /\ UNCHANGED <<web, clock, generation_tasks, deployment, schedule, characters, jobs, nextId, calls, response>>

\* the history request and the fetch of the first image; None without image
GetImageData ==
    /\ deployment = "impl"
    /\ run.pc = "history"
    /\ \E image_data \in {None, "png bytes"} :
          /\ run' = [run EXCEPT !.pc = "returned", !.image_data = image_data]
          /\ response' = IF image_data = None THEN 500 ELSE 200
    /\ UNCHANGED <<web, clock, generation_tasks, deployment, schedule, characters, jobs, nextId, calls, remote>>

InitSocket ==
    /\ deployment = "impl"
    /\ schedule = <<>>
    /\ characters = <<>>
    /\ jobs = {}
    /\ nextId = 0
    /\ run = Requesting
    /\ calls = <<>>
    /\ response = NoResponse
    /\ remote = RemoteIdle
    /\ web = <<>>
    /\ clock = 0
    /\ generation_tasks = <<>>

NextSocket ==
    \/ ImplQueuePrompt
    \/ RemoteCompletes
    \/ RemotePushes
    \/ Connect
    \/ Recv
    \/ GetImageData

\* every step that can be taken is taken in the end: ComfyUI and the handler
\* both keep running
SpecSocket == InitSocket /\ [][NextSocket]_vars /\ WF_vars(NextSocket)

\* C18: generate_image returns once ComfyUI has finished the queued prompt,
\* also when it finished before the WebSocket was connected.
C18_ReturnsOnceFinished ==
    (deployment = "impl" /\ remote.state = "finished") ~> (run.pc = "returned")

\* what holds of the code: it returns when the socket was connected before
\* ComfyUI finished the prompt
C18_ReturnsWhenConnectedFirst ==
    (deployment = "impl" /\ remote.state = "queued" /\ remote.connected) ~> (run.pc = "returned")

\* the handler waits on an empty socket for an event that was sent before it
\* connected
C18_WitnessWaitsForever ==
    /\ deployment = "impl"
    /\ run.pc = "recv"
    /\ remote.state = "finished"
    /\ remote.inbox = <<>>
    /\ remote.pushed = MaxMessages

\* ------------------------------- python_dalla: what a worker pass achieves

\* the step is the for loop's body for the job at position i
ProcessesJob == deployment = "dalla" /\ run.pc = "loop" /\ run' # run

\* C21: in a worker pass, a scheduled job whose post_at cannot be parsed, or
\* that is due and whose character is missing, is marked 'failed' with an
\* error_message without any Instagram request; a due job with a character is
\* posted and marked 'completed', or 'failed' with an error_message when the
\* post fails; and in each case the pass goes on to the next job.
C21_FailuresMarkedPassGoesOn ==
    [][ProcessesJob =>
        LET job == run.jobs[run.i]
            marked == run'.jobs[run.i]
            missing == job.character_id \notin IdsOf(characters)
        IN  /\ (job.status = "scheduled" /\ job.post_at = BadDate) =>
                  /\ marked.status = "failed" /\ marked.error_message # None
                  /\ calls' = calls
            /\ (job.status = "scheduled" /\ job.post_at # BadDate
                  /\ job.post_at <= run.now /\ missing) =>
                  /\ marked.status = "failed" /\ marked.error_message # None
                  /\ calls' = calls
            /\ (job.status = "scheduled" /\ job.post_at # BadDate
                  /\ job.post_at <= run.now /\ ~missing) =>
                  /\ calls' = Append(calls, job.id)
                  /\ \/ marked.status = "completed"
                     \/ marked.status = "failed" /\ marked.error_message # None
            /\ run'.i = run.i + 1
            /\ run.i < Len(run.jobs) => run'.pc = "loop"
            /\ \A k \in 1..Len(run.jobs) : k # run.i => run'.jobs[k] = run.jobs[k]
    ]_vars

\* a pass marked its first job failed for a missing character and went on to
\* post the second
C21_Witness ==
    /\ deployment = "dalla"
    /\ Len(run.jobs) = 2
    /\ run.loaded[1].status = "scheduled"
    /\ run.jobs[1].status = "failed"
    /\ run.jobs[1].error_message = "Character not found."
    /\ run.loaded[2].status = "scheduled"
    /\ run.jobs[2].status = "completed"
    /\ calls = <<run.jobs[2].id>>

\* the job was loaded as scheduled with a post_at that has passed
LoadedDue(job, now) ==
    job.status = "scheduled" /\ job.post_at # BadDate /\ job.post_at <= now

\* the jobs the pass loaded as scheduled and due are completed or failed in
\* the file the step leaves
DueJobsMarked ==
    \A k \in 1..Len(run.loaded) :
        LoadedDue(run.loaded[k], run.now) =>
            /\ k <= Len(schedule')
            /\ schedule'[k].id = run.loaded[k].id
            /\ schedule'[k].status \in {"completed", "failed"}

\* the pass ends without having anything to save
EndsWithoutSave == deployment = "dalla" /\ run.pc = "loop" /\ run'.pc = "sleep"

NoIdKey == "absent"
AnswerIds == {NoIdKey, "", "17900", "17901"}

\* a request that raised requests.exceptions.RequestException
RequestError == "RequestException"

\* character.get("instagram_account_id"), character.get("instagram_access_token")
\* and config.PUBLIC_URL, each set or not
Credentials == [instagram_account_id : {"", "1784"}, instagram_access_token : {"", "token"},
                PUBLIC_URL : {"", "https://public"}]

ImageFilenames == {"a.png", "b.png"}

\* the call before its first statement
Entered(character, image_filename, caption) ==
    [pc |-> "check", character |-> character, image_filename |-> image_filename,
     caption |-> caption,
     creation_id |-> NoIdKey, result |-> [success |-> FALSE, error |-> ""]]

\* one request to the Graph API with what came back for it
GraphRequest(op, image_url, caption, creation_id, answer) ==
    [op |-> op, image_url |-> image_url, caption |-> caption, creation_id |-> creation_id,
     answer |-> answer]

\* the container answer goes on to publishing whenever it has an id key
HasCreationId_key_only(answer) == answer # NoIdKey

\* creation_id = container_result.get('id'); if not creation_id: return failure
HasCreationId(answer) == answer \notin {NoIdKey, ""}

\* 'id' in publish_result
HasPostId(answer) == answer # NoIdKey

\* return {"success": False, "error": error}
Failure(r, error) == [r EXCEPT !.pc = "returned", !.result = [success |-> FALSE, error |-> error]]

\* step 1: the configuration checks
CheckConfiguration ==
    /\ deployment = "dalla"
    /\ run.pc = "check"
    /\ run' = IF run.character.instagram_account_id = "" \/ run.character.instagram_access_token = ""
              THEN Failure(run, "Instagram credentials are not configured for this character.")
              ELSE IF run.character.PUBLIC_URL = ""
              THEN Failure(run, "PUBLIC_URL is not configured in the application.")
              ELSE [run EXCEPT !.pc = "create_container"]
    /\ UNCHANGED <<web, clock, generation_tasks, deployment, schedule, characters, jobs, nextId, calls, response, remote>>

\* step 2: POST /<ig_user_id>/media
CreateContainer ==
    /\ deployment = "dalla"
    /\ run.pc = "create_container"
    /\ \E answer \in AnswerIds \cup {RequestError} :
          /\ calls' = Append(calls, GraphRequest("media", run.image_filename, run.caption, NoIdKey, answer))
          /\ run' = IF answer = RequestError
                    THEN Failure(run, "API Error (creating container)")
                    ELSE IF ~HasCreationId(answer)
                    THEN Failure(run, "Failed to create media container")
                    ELSE [run EXCEPT !.pc = "publish", !.creation_id = answer]
    /\ UNCHANGED <<web, clock, generation_tasks, deployment, schedule, characters, jobs, nextId, response, remote>>

\* step 3: POST /<ig_user_id>/media_publish
PublishContainer ==
    /\ deployment = "dalla"
    /\ run.pc = "publish"
    /\ \E answer \in AnswerIds \cup {RequestError} :
          /\ calls' = Append(calls, GraphRequest("media_publish", "", "", run.creation_id, answer))
          /\ run' = IF answer = RequestError
                    THEN Failure(run, "API Error (publishing container)")
                    ELSE IF HasPostId(answer)
                    THEN [run EXCEPT !.pc = "returned",
                                     !.result = [success |-> TRUE, error |-> ""]]
                    ELSE Failure(run, "Failed to publish container")
    /\ UNCHANGED <<web, clock, generation_tasks, deployment, schedule, characters, jobs, nextId, response, remote>>

InitInstagram ==
    /\ deployment = "dalla"
    /\ schedule = <<>>
    /\ characters = <<>>
    /\ jobs = {}
    /\ nextId = 0
    /\ \E character \in Credentials, image_filename \in ImageFilenames,
          caption \in Captions \cup {DefaultCaption} :
          run = Entered(character, image_filename, caption)
    /\ calls = <<>>
    /\ response = NoResponse
    /\ remote = "none"
    /\ web = <<>>
    /\ clock = 0
    /\ generation_tasks = <<>>

NextInstagram ==
    \/ CheckConfiguration
    \/ CreateContainer
    \/ PublishContainer

SpecInstagram == InitInstagram /\ [][NextInstagram]_vars

\* C23: post_to_instagram sends no request when the account id, the access
\* token or PUBLIC_URL is missing; it sends the publish request only after
\* the container request came back with an id, and with that id; it returns
\* success only when the publish answer has an id.
C23_TwoStepProtocol ==
    deployment = "dalla" =>
        /\ (\/ run.character.instagram_account_id = ""
            \/ run.character.instagram_access_token = ""
            \/ run.character.PUBLIC_URL = "") => calls = <<>>
        /\ \A k \in 1..Len(calls) :
              /\ calls[k].op = "media" => k = 1
              /\ calls[k].op = "media_publish" =>
                    /\ k = 2
                    /\ calls[1].op = "media"
                    /\ calls[1].answer \notin {RequestError, NoIdKey, ""}
                    /\ calls[2].creation_id = calls[1].answer
        /\ (run.pc = "returned" /\ run.result.success) =>
              /\ Len(calls) = 2
              /\ calls[2].op = "media_publish"
              /\ calls[2].answer \notin {RequestError, NoIdKey}

\* a call has gone through both steps and returned success
C23_Witness ==
    /\ deployment = "dalla"
    /\ run.pc = "returned"
    /\ run.result.success
    /\ Len(calls) = 2
    /\ calls[2].creation_id = "17900"

\* a call without access token has returned failure
C23_WitnessRejected ==
    /\ deployment = "dalla"
    /\ run.pc = "returned"
    /\ run.character.instagram_access_token = ""
    /\ ~run.result.success

\* ------------- python_implementation: social_media_utils.post_to_instagram

\* for _ in range(10)
Attempts == 10

\* character.instagramAccountId and character.instagramApiKey, each set or not
ImplCredentials == [instagramAccountId : {"", "1784"}, instagramApiKey : {"", "key"}]

\* no tunnel was opened so far
NoTunnel == [opened |-> 0, open |-> FALSE]

\* the call before its first statement
EnteredImpl(character) ==
    [pc |-> "check", character |-> character, attempts |-> 0, creation_id |-> NoIdKey,
     exit |-> "none"]

\* the loop goes round once more than range(10) allows
AttemptsLeft_one_more(attempts) == attempts <= Attempts

\* for _ in range(10): another round of the loop is due
AttemptsLeft(attempts) == attempts < Attempts

\* the try block is left without its finally clause
Leave_without_finally(r, exit) == [r EXCEPT !.pc = exit, !.exit = exit]

\* the try block is left, by return or by an exception: the finally clause runs
Leave(r, exit) == [r EXCEPT !.pc = "finally", !.exit = exit]

\* if not all([character.instagramAccountId, character.instagramApiKey]): raise
CheckCredentials ==
    /\ deployment = "impl"
    /\ run.pc = "check"
    /\ run' = IF run.character.instagramAccountId = "" \/ run.character.instagramApiKey = ""
              THEN [run EXCEPT !.pc = "raised", !.exit = "raised"]
              ELSE [run EXCEPT !.pc = "connect"]
    /\ UNCHANGED <<web, clock, generation_tasks, deployment, schedule, characters, jobs, nextId, calls, response, remote>>

\* public_url = ngrok.connect(...).public_url: a tunnel is opened, or the
\* call raises and none is
NgrokConnect ==
    /\ deployment = "impl"
    /\ run.pc = "connect"
    /\ \/ /\ remote' = [opened |-> remote.opened + 1, open |-> TRUE]
          /\ run' = [run EXCEPT !.pc = "create_container"]
       \/ /\ run' = [run EXCEPT !.pc = "raised", !.exit = "raised"]
          /\ UNCHANGED remote
    /\ UNCHANGED <<web, clock, generation_tasks, deployment, schedule, characters, jobs, nextId, calls, response>>

\* one round of the polling loop: the request, raise_for_status, the id test;
\* the loop's exit after the last round without id
CreateContainerImpl ==
    /\ deployment = "impl"
    /\ run.pc = "create_container"
    /\ IF AttemptsLeft(run.attempts)
       THEN \E answer \in AnswerIds \cup {RequestError} :
               /\ calls' = Append(calls, GraphRequest("media", "image", "caption", NoIdKey, answer))
               /\ run' = IF answer = RequestError
                         THEN Leave([run EXCEPT !.attempts = run.attempts + 1], "raised")
                         ELSE IF HasCreationId(answer)
                         THEN [run EXCEPT !.attempts = run.attempts + 1, !.pc = "publish",
                                          !.creation_id = answer]
                         ELSE [run EXCEPT !.attempts = run.attempts + 1]
       ELSE \* if not creation_id: raise Exception("Failed to create ... in time.")
            /\ run' = Leave(run, "raised")
            /\ calls' = calls
    /\ UNCHANGED <<web, clock, generation_tasks, deployment, schedule, characters, jobs, nextId, response, remote>>

\* the publish request, raise_for_status, the post id test
PublishContainerImpl ==
    /\ deployment = "impl"
    /\ run.pc = "publish"
    /\ \E answer \in AnswerIds \cup {RequestError} :
          /\ calls' = Append(calls, GraphRequest("media_publish", "", "", run.creation_id, answer))
          /\ run' = IF answer \in {RequestError, NoIdKey, ""}
                    THEN Leave(run, "raised")
                    ELSE Leave(run, "returned")
    /\ UNCHANGED <<web, clock, generation_tasks, deployment, schedule, characters, jobs, nextId, response, remote>>

\* finally: ngrok.disconnect(public_url), then the return or the exception
Finally ==
    /\ deployment = "impl"
    /\ run.pc = "finally"
    /\ remote' = [remote EXCEPT !.open = FALSE]
    /\ run' = [run EXCEPT !.pc = run.exit]
    /\ UNCHANGED <<web, clock, generation_tasks, deployment, schedule, characters, jobs, nextId, calls, response>>

InitImplInstagram ==
    /\ deployment = "impl"
    /\ schedule = <<>>
    /\ characters = <<>>
    /\ jobs = {}
    /\ nextId = 0
    /\ \E character \in ImplCredentials : run = EnteredImpl(character)
    /\ calls = <<>>
    /\ response = NoResponse
    /\ remote = NoTunnel
    /\ web = <<>>
    /\ clock = 0
    /\ generation_tasks = <<>>

NextImplInstagram ==
    \/ CheckCredentials
    \/ NgrokConnect
    \/ CreateContainerImpl
    \/ PublishContainerImpl
    \/ Finally

SpecImplInstagram == InitImplInstagram /\ [][NextImplInstagram]_vars

\* the container-creation requests of the call so far
MediaCalls == {k \in 1..Len(calls) : calls[k].op = "media"}

\* C24: a call sends at most 10 container-creation requests, none after the
\* first answer that carries an id; the publish request follows such an
\* answer at once; and after 10 answers without id the call raises without
\* ever sending a publish request.
C24_AtMostTenThenRaise ==
    deployment = "impl" =>
        /\ Cardinality(MediaCalls) <= 10
        /\ \A k \in MediaCalls :
              (calls[k].answer \notin {RequestError, NoIdKey, ""}) => \A j \in MediaCalls : j <= k
        /\ \A k \in 1..Len(calls) :
              calls[k].op = "media_publish" =>
                  /\ k > 1
                  /\ calls[k - 1].op = "media"
                  /\ calls[k - 1].answer \notin {RequestError, NoIdKey, ""}
                  /\ calls[k].creation_id = calls[k - 1].answer
        /\ (Cardinality(MediaCalls) = 10 /\ \A k \in MediaCalls : calls[k].answer \in {NoIdKey, ""}) =>
              /\ Len(calls) = 10
              /\ run.pc \in {"create_container", "finally", "raised"}
              /\ run.pc # "create_container" => run.exit = "raised"

\* ten requests were answered without id and the call has raised
C24_Witness ==
    /\ deployment = "impl"
    /\ run.pc = "raised"
    /\ Len(calls) = 10
    /\ \A k \in 1..Len(calls) : calls[k].op = "media" /\ calls[k].answer \in {NoIdKey, ""}

\* C25: a call that opened a tunnel has disconnected it when it returns or
\* raises, on every exit path; a call rejected for missing credentials opens
\* no tunnel.
C25_TunnelClosedOnExit ==
    deployment = "impl" =>
        /\ run.pc \in {"returned", "raised"} => ~remote.open
        /\ (run.character.instagramAccountId = "" \/ run.character.instagramApiKey = "")
              => remote.opened = 0

\* a call whose publish request failed has raised with its tunnel closed
C25_Witness ==
    /\ deployment = "impl"
    /\ run.pc = "raised"
    /\ remote.opened = 1
    /\ ~remote.open
    /\ Len(calls) > 0
    /\ calls[Len(calls)].op = "media_publish"
    /\ calls[Len(calls)].answer = RequestError

\* --------------------------------------- src/app.py: PUT /api/characters/<id>

\* a JSON body without any key
EmptyBody == [f \in {} |-> ""]

\* the names a character can be renamed to
NewNames == Names \cup {"Cy"}

\* the bodies of a character update: any of the keys id and name
CharacterBodies ==
    {EmptyBody} \cup {[name |-> n] : n \in NewNames} \cup {[id |-> i] : i \in Ids}
        \cup {[id |-> i, name |-> n] : i \in Ids, n \in NewNames}

\* characters[character_index].update(data)
DictUpdate(record, data) ==
    [f \in DOMAIN record \cup DOMAIN data |-> IF f \in DOMAIN data THEN data[f] ELSE record[f]]

\* PUT /api/characters/<char_id>; of a character's fields the model keeps id
\* and name, so updatedAt is not stored
update_character(char_id, data) ==
    /\ deployment = "app"
    /\ IF DOMAIN data = {}
       THEN /\ response' = 400
            /\ UNCHANGED characters
       ELSE IF char_id \notin IdsOf(characters)
       THEN /\ response' = 404
            /\ UNCHANGED characters
       ELSE LET character_index == IndexOfId(characters, char_id)
            IN  /\ characters' = [characters EXCEPT
                                     ![character_index] = DictUpdate(characters[character_index], data)]
                /\ response' = 200
    /\ UNCHANGED <<web, clock, generation_tasks, deployment, schedule, jobs, nextId, run, calls, remote>>

NextCharacters ==
    \/ \E n \in Names \cup {""} : create_character(n)
    \/ \E c \in Ids, data \in CharacterBodies : update_character(c, data)
    \/ \E c \in Ids : delete_character(c)

SpecCharacters == InitApp /\ [][NextCharacters]_vars

\* C26: in src/app.py the id of a stored character never changes and the ids
\* in characters.json stay pairwise distinct, after any sequence of
\* create_character, update_character and delete_character requests.
C26_CharacterIdsStable ==
    [][deployment = "app" =>
        /\ \A c \in Ids, data \in CharacterBodies :
              update_character(c, data) =>
                  \A i \in 1..Len(characters) : characters'[i].id = characters[i].id
        /\ \A i, j \in 1..Len(characters') :
              characters'[i].id = characters'[j].id => i = j
    ]_vars

\* what holds of src/app.py: an update whose body has no id key keeps every id
C26_IdsKeptWithoutIdInBody ==
    [][deployment = "app" =>
        \A c \in Ids, data \in CharacterBodies :
            (update_character(c, data) /\ "id" \notin DOMAIN data) =>
                \A i \in 1..Len(characters) : characters'[i].id = characters[i].id
    ]_vars

\* ------------ src/python_implementation/src/main.py: PUT /api/characters/{id}

Personalities == {"calm", "bold"}

\* the fields of CharacterUpdate kept in the model
CharacterUpdateFields == {"name", "personality"}

\* the JSON bodies of an update: the keys id and createdAt are no fields of
\* CharacterUpdate
ImplBodies ==
    {EmptyBody} \cup {[name |-> n] : n \in Names} \cup {[personality |-> p] : p \in Personalities}
        \cup {[name |-> n, personality |-> p] : n \in Names, p \in Personalities}
        \cup {[id |-> i] : i \in Ids} \cup {[createdAt |-> MaxClock + 1]}
        \cup {[id |-> i, name |-> n] : i \in Ids, n \in Names}

\* model_dump() without exclude_unset: the fields the body lacks come as None
ModelDump_with_unset(body) ==
    [f \in CharacterUpdateFields |-> IF f \in DOMAIN body THEN body[f] ELSE None]

\* CharacterUpdate(**body).model_dump(exclude_unset=True)
ModelDump(body) ==
    [f \in DOMAIN body \cap CharacterUpdateFields |-> body[f]]

\* character_to_update.model_copy(update=update_data)
ModelCopy(character, update_data) ==
    [f \in DOMAIN character |-> IF f \in DOMAIN update_data THEN update_data[f] ELSE character[f]]

\* POST /api/characters: Character(**character_data.model_dump())
create_character_record(name, personality) ==
    /\ deployment = "impl"
    /\ nextId < MaxIds
    /\ nextId' = nextId + 1
    /\ characters' = Append(characters, [id |-> nextId + 1, name |-> name, personality |-> personality,
                                         createdAt |-> clock, updatedAt |-> clock])
    /\ response' = 201
    /\ UNCHANGED <<web, clock, generation_tasks, deployment, schedule, jobs, run, calls, remote>>

\* PUT /api/characters/{character_id}
update_character_impl(character_id, body) ==
    /\ deployment = "impl"
    /\ IF character_id \notin IdsOf(characters)
       THEN /\ response' = 404
            /\ UNCHANGED characters
       ELSE LET char_index == IndexOfId(characters, character_id)
                update_data == ModelDump(body)
                updated_character == ModelCopy(characters[char_index], update_data)
            IN  /\ characters' = [characters EXCEPT
                                     ![char_index] = [updated_character EXCEPT !.updatedAt = clock]]
                /\ response' = 200
    /\ UNCHANGED <<web, clock, generation_tasks, deployment, schedule, jobs, nextId, run, calls, remote>>

\* datetime.utcnow() moves on
TimePasses ==
    /\ deployment = "impl"
    /\ clock < MaxClock
    /\ clock' = clock + 1
    /\ UNCHANGED <<web, generation_tasks, deployment, schedule, characters, jobs, nextId, run, calls, response, remote>>

NextImplCharacters ==
    \/ \E n \in Names, p \in Personalities : create_character_record(n, p)
    \/ \E c \in Ids, body \in ImplBodies : update_character_impl(c, body)
    \/ \E c \in Ids : delete_character_impl(c)
    \/ TimePasses

SpecImplCharacters == InitImpl /\ [][NextImplCharacters]_vars

\* C27: python_implementation update_character changes only the fields present
\* in the request body plus updatedAt: every field not provided, and the
\* character's id and createdAt, keep their stored values, all other characters
\* are unchanged, and an unknown id yields 404 with no write.
C27_UpdateChangesOnlyProvidedFields ==
    [][\A c \in Ids, body \in ImplBodies :
        update_character_impl(c, body) =>
            IF c \notin IdsOf(characters)
            THEN response' = 404 /\ characters' = characters
            ELSE LET i == IndexOfId(characters, c)
                 IN  /\ response' = 200
                     /\ Len(characters') = Len(characters)
                     /\ \A j \in 1..Len(characters) : j # i => characters'[j] = characters[j]
                     /\ DOMAIN characters'[i] = DOMAIN characters[i]
                     /\ \A f \in DOMAIN characters[i] :
                            IF f = "updatedAt" THEN characters'[i][f] = clock
                            ELSE IF f \in DOMAIN body /\ f \notin {"id", "createdAt"}
                            THEN characters'[i][f] = body[f]
                            ELSE characters'[i][f] = characters[i][f]
    ]_vars

\* the second of two stored characters was updated after its creation
C27_Witness ==
    /\ deployment = "impl"
    /\ response = 200
    /\ Len(characters) = 2
    /\ characters[2].updatedAt > characters[2].createdAt
    /\ characters[1].updatedAt = characters[1].createdAt

\* ------------------------- src/python_dalla/app.py: the character form routes

\* the tokens typed into the form of a new character and of an edit
AddTokens == {"", "old token"}
EditTokens == {"", "new token"}

\* request.form of a POST: with or without the token field, and without name
Forms(tokens) ==
    {[name |-> n] : n \in Names} \cup {[name |-> n, instagram_access_token |-> t] : n \in Names, t \in tokens}
        \cup {[instagram_access_token |-> t] : t \in tokens}

\* request.form.get(key, default)
FormGet(form, key, default) == IF key \in DOMAIN form THEN form[key] ELSE default

\* the token is taken whenever the form has the field
TokenProvided_key_only(form) == "instagram_access_token" \in DOMAIN form

\* if request.form.get('instagram_access_token')
TokenProvided(form) == FormGet(form, "instagram_access_token", None) \notin {None, ""}

\* POST /characters/add; request.form['name'] of a form without name is a 400
add_character(form) ==
    /\ deployment = "dalla"
    /\ IF "name" \notin DOMAIN form
       THEN /\ response' = 400
            /\ UNCHANGED <<characters, nextId>>
       ELSE /\ nextId < MaxIds
            /\ nextId' = nextId + 1
            /\ characters' = Append(characters,
                   [id |-> nextId + 1, name |-> form.name, createdAt |-> clock, updatedAt |-> clock,
                    instagram_access_token |-> FormGet(form, "instagram_access_token", "")])
            /\ response' = 302
    /\ UNCHANGED <<web, clock, generation_tasks, deployment, schedule, jobs, run, calls, remote>>

\* POST /characters/edit/<character_id>
edit_character(character_id, form) ==
    /\ deployment = "dalla"
    /\ IF get_character(character_id, characters) = NoCharacter
       THEN /\ response' = 404
            /\ UNCHANGED characters
       ELSE IF "name" \notin DOMAIN form
       THEN /\ response' = 400
            /\ UNCHANGED characters
       ELSE LET i == IndexOfId(characters, character_id)
            IN  /\ characters' = [characters EXCEPT
                       ![i].name = form.name,
                       ![i].updatedAt = clock,
                       ![i].instagram_access_token =
                           IF TokenProvided(form) THEN form.instagram_access_token ELSE @]
                /\ response' = 302
    /\ UNCHANGED <<web, clock, generation_tasks, deployment, schedule, jobs, nextId, run, calls, remote>>

\* POST /characters/delete/<character_id>
delete_character_dalla(character_id) ==
    /\ deployment = "dalla"
    /\ characters' = WithoutId(characters, character_id)
    /\ response' = 302
    /\ UNCHANGED <<web, clock, generation_tasks, deployment, schedule, jobs, nextId, run, calls, remote>>

\* the web UI on an empty data directory
InitDallaCharacters ==
    /\ deployment = "dalla"
    /\ schedule = <<>>
    /\ characters = <<>>
    /\ jobs = {}
    /\ nextId = 0
    /\ run = Sleeping
    /\ calls = <<>>
    /\ response = NoResponse
    /\ remote = "none"
    /\ web = {}
    /\ clock = 0
    /\ generation_tasks = <<>>

NextDallaCharacters ==
    \/ \E form \in Forms(AddTokens) : add_character(form)
    \/ \E c \in Ids, form \in Forms(EditTokens) : edit_character(c, form)
    \/ \E c \in Ids : delete_character_dalla(c)
    \/ Tick

SpecDallaCharacters == InitDallaCharacters /\ [][NextDallaCharacters]_vars

\* C28: python_dalla edit_character leaves a character's stored
\* instagram_access_token unchanged when the submitted form's token is empty
\* or absent, and replaces it only when a non-empty token is submitted; no
\* other character's record is modified by the edit.
C28_TokenKeptUnlessProvided ==
    [][\A c \in Ids, form \in Forms(EditTokens) :
        edit_character(c, form) =>
            /\ Len(characters') = Len(characters)
            /\ \A j \in 1..Len(characters) :
                  /\ characters[j].id # c => characters'[j] = characters[j]
                  /\ FormGet(form, "instagram_access_token", "") = ""
                        => characters'[j].instagram_access_token = characters[j].instagram_access_token
                  /\ characters'[j].instagram_access_token # characters[j].instagram_access_token
                        => /\ characters[j].id = c
                           /\ form.instagram_access_token # ""
                           /\ characters'[j].instagram_access_token = form.instagram_access_token
                  /\ (characters[j].id = c /\ "name" \in DOMAIN form
                            /\ FormGet(form, "instagram_access_token", "") # "")
                        => characters'[j].instagram_access_token = form.instagram_access_token
    ]_vars

\* an edited character still has the token it was added with, next to another
\* character
C28_Witness ==
    /\ deployment = "dalla"
    /\ Len(characters) = 2
    /\ \E j \in 1..2 :
          /\ "updatedAt" \in DOMAIN characters[j]
          /\ characters[j].updatedAt > characters[j].createdAt
          /\ characters[j].instagram_access_token = "old token"

\* an edited character has the token of the edit's form
C28_WitnessReplaced ==
    /\ deployment = "dalla"
    /\ \E j \in 1..Len(characters) :
          /\ "updatedAt" \in DOMAIN characters[j]
          /\ characters[j].instagram_access_token = "new token"

====
